---- MODULE Spec2Model ----
(***************************************************************************)
(* A model of bscan (welchbj/bscan): the command-line driver cli.main, the *)
(* runtime store and subprocess tracking of runtime.py, the per-target     *)
(* pipeline of scans.py and the service joiner / templater of scans.py and *)
(* models.py.                                                              *)
(*                                                                         *)
(* The orchestration runs on one asyncio event loop: a coroutine runs      *)
(* without interruption from one suspension point (an await that really    *)
(* waits) to the next, so every action below is one such stretch of code.  *)
(***************************************************************************)
EXTENDS Integers, Sequences, FiniteSets, TLC

(***************************************************************************)
(* Bounds of the model.                                                    *)
(***************************************************************************)
\* longest list of positional targets on the command line
MaxTargets == 2
\* largest value given to --max-concurrency (0 stands for an invalid value)
MaxConc == 2

(***************************************************************************)
(* The command line.                                                       *)
(***************************************************************************)
\* candidates that is_valid_ip_host_addr / is_valid_hostname accept
Hosts == {"h1", "h2"}
\* candidates that only is_valid_ip_net_addr accepts
Networks == {"10.0.0.0/24"}
Candidates == Hosts \cup Networks

is_valid_host(candidate) == candidate \in Hosts
is_valid_ip_net_addr(candidate) == candidate \in Networks

\* every list of at most n elements of S
SeqUpTo(S, n) == UNION {[1..k -> S] : k \in 0..n}

\* the quick scan methods of configuration/port-scans.toml
QsMethods == {"unicornscan", "nmap"}

\* the keys of its 'quick' table
qs_config == QsMethods \cup {"default"}

\* the values --qs-method is given
QsMethodArgs == qs_config \cup {"masscan"}

\* the word lists that exist, and the values --brute-pass-list is given
WordLists == {"fasttrack.txt"}
BrutePassLists == WordLists \cup {"missing.txt"}

\* a method check that lets the 'default' key through
scan_method_rejected_unknown_only(name) == name \notin qs_config

\* config.init_config: whether a scan method name is refused
scan_method_rejected(name) == name \notin qs_config \/ name = "default"

\* the PortScanConfig(name, pattern, scan) tuple that config.init_config
\* stores; a tuple never equals a string
PortScanConfig(name) == "PortScanConfig:" \o name

VARIABLES
    opts,          \* the parsed command line (argparse Namespace)
    main_pc,       \* where cli.main stands
    main_result,   \* what cli.main ended with
    cand_idx,      \* index of the next candidate of the target loop
    targets,       \* cli.main's list `targets`
    dirs,          \* targets whose base directory <target>.bscan.d exists
    db,            \* runtime.db: the scalar keys written so far
    subprocesses,  \* runtime.db['subprocesses']: target -> set of commands
    task_pc,       \* position of each scan_target task (index into targets)
    next_start,    \* number of gathered tasks that have taken their first step
    poller_pc,     \* position of the status_update_poller task
    procs,         \* operating-system subprocesses created so far
    first_exc,     \* first exception raised by a gathered task
    defined_services, \* db['services'] as join_services reads it
    join_pc,       \* calls of join_services made so far
    join_arg,      \* the set of ParsedService given to join_services
    join_res,      \* what join_services returned for join_arg
    join_res2,     \* what it returned for the unmatched set of join_res
    tmpl_ds,       \* the DetectedService whose templates are filled
    tmpl_files,    \* the files that exist under the target's services/
    tmpl_scans,    \* what build_scans() returned
    tmpl_recs,     \* what build_recommendations() returned
    pl_pc,         \* where the scan_target coroutine of one target stands
    pl_defined,    \* db['services'] as that coroutine's joins read it
    pl_qs,         \* qs_parsed_services
    pl_ts,         \* ts_parsed_services
    pl_qs_joined,  \* qs_joined_services
    pl_ts_joined,  \* ts_joined_services
    pl_spawned,    \* the subprocesses spawned so far, in order
    pl_fouts1,     \* output paths given to the port-less scans of fanout 1
    pl_fouts2,     \* output paths given to the port-less scans of fanout 2
    pl_built_on,   \* the files that existed when fanout 2 was built
    pl_files,      \* the files that exist under the target's services/
    pl_recs,       \* the lines of the target's recommendations.txt
    pl_gather,     \* the gather of scans.py 73: what each scan returned,
                   \* the order in which they ended, and res
    sc_cmd,        \* the command shortened_cmd() is called with
    sc_length,     \* the length shortened_cmd() is called with
    sc_out,        \* what shortened_cmd() returned
    po_pc,         \* where a call of status_update_poller stands
    po_by_main,    \* whether cli.main decides about that call
    po_exc,        \* the exception that left status_update_poller
    po_elapsed,    \* time_elapsed, in poll periods of 0.5 s
    po_stats,      \* the RuntimeStats snapshot of the current cycle
    po_wakes,      \* the number of sleeps that have ended
    po_lines,      \* the status lines printed, each with the wake it was
                   \* printed on
    st_pc,         \* where a call of run_nmap_ts / run_unicornscan_qs stands
    st_scan,       \* which of the two scans is called
    st_script,     \* the lines the subprocess writes in its lifetime
    st_sent,       \* how many of them it has written to its stdout
    st_read,       \* how many of them proc_spawn has yielded
    st_os,         \* the subprocess in the operating system
    st_code,       \* its exit code
    st_services,   \* the local set `services` of the scan
    st_warned,     \* whether the non-zero exit warning was printed
    st_ret,        \* what the scan returned
    st_exc,        \* the exception that left the scan
    lk_holder,     \* the coroutine that holds runtime.lock, or 0
    lk_running,    \* the coroutine the event loop is running, or 0
    lk_pc,         \* where each coroutine stands in its runtime call
    lk_op,         \* the runtime call each coroutine is making
    lk_exc,        \* the exception its last call raised
    lk_count,      \* how many calls the coroutines have made
    lk_unlocked,   \* whether a shared collection was changed by a
                   \* coroutine that did not hold the lock
    gt_pc,         \* where a call of gather_throttled stands
    gt_aws,        \* the awaitables it was given: state, number of starts,
                   \* and how each one ends
    gt_lo,         \* the first awaitable of the batch being gathered
    gt_hi          \* the last awaitable of the batch being gathered

mainVars == <<opts, main_pc, main_result, cand_idx, targets, dirs, db,
              subprocesses, task_pc, next_start, poller_pc, procs, first_exc>>

joinVars == <<defined_services, join_pc, join_arg, join_res, join_res2>>

tmplVars == <<tmpl_ds, tmpl_files, tmpl_scans, tmpl_recs>>

plVars == <<pl_pc, pl_defined, pl_qs, pl_ts, pl_qs_joined, pl_ts_joined,
            pl_spawned, pl_fouts1, pl_fouts2, pl_built_on, pl_files, pl_recs,
            pl_gather>>

scVars == <<sc_cmd, sc_length, sc_out>>

poVars == <<po_pc, po_by_main, po_exc, po_elapsed, po_stats, po_wakes,
            po_lines>>

stVars == <<st_pc, st_scan, st_script, st_sent, st_read, st_os, st_code,
            st_services, st_warned, st_ret, st_exc>>

\* the variables of the other function-level specifications
lkVars == <<lk_holder, lk_running, lk_pc, lk_op, lk_exc, lk_count,
            lk_unlocked>>

gtVars == <<gt_pc, gt_aws, gt_lo, gt_hi>>

fnVars == <<scVars, poVars, stVars, lkVars, gtVars>>

\* the variables of the function-level specifications
unitVars == <<joinVars, tmplVars, plVars, fnVars>>

vars == <<mainVars, unitVars>>

(***************************************************************************)
(* runtime.py: the keyed store.                                            *)
(***************************************************************************)
\* get_db_value(key) returns db[key], and raises BscanInternalError for a
\* key that was never written
has_db_value(d, key) == key \in DOMAIN d
get_db_value(d, key) == d[key]

\* write_db_value / db[key] = val
write_db_value(d, key, val) == (key :> val) @@ d

(***************************************************************************)
(* config.py: init_config, in the order of its statements.  Each stage     *)
(* writes its keys and then may raise BscanConfigError; the keys written   *)
(* before the raise stay in the store.                                     *)
(***************************************************************************)
init_config(d, ns) ==
    LET d0 == write_db_value(write_db_value(d,
                  "active-targets", "set"),
                  "brute-pass-list", ns.brute_pass_list)
        d1 == write_db_value(d0,
                  "brute-user-list", "path")
        d2 == write_db_value(write_db_value(write_db_value(
              write_db_value(write_db_value(d1,
                  "cmd-print-width", ns.cmd_print_width),
                  "output-dir", "path"),
                  "patterns", "regex"),
                  "no-service-scans", FALSE),
                  "services", "toml")
        d3 == write_db_value(write_db_value(write_db_value(d2,
                  "quick-scan", PortScanConfig(ns.qs_method)),
                  "thorough-scan", PortScanConfig("nmap")),
                  "udp-scan", PortScanConfig("nmap"))
        d4 == write_db_value(write_db_value(write_db_value(
              write_db_value(write_db_value(d3,
                  "status-interval", ns.status_interval),
                  "subprocesses", "dict"),
                  "web-word-list", "path"),
                  "quick-only", ns.quick_only),
                  "hard", ns.hard)
        d5 == write_db_value(write_db_value(write_db_value(d4,
                  "ping-sweep", ns.ping_sweep),
                  "udp", ns.udp),
                  "verbose-status", FALSE)
    IN  IF ns.brute_pass_list \notin WordLists
        THEN [exc |-> "BscanConfigError", db |-> d0]
        ELSE IF ns.cmd_print_width < 5
        THEN [exc |-> "BscanConfigError", db |-> d1]
        ELSE IF scan_method_rejected(ns.qs_method)
        THEN [exc |-> "BscanConfigError", db |-> d2]
        ELSE IF ns.ping_sweep
        THEN [exc |-> "BscanConfigError", db |-> d4]
        ELSE [exc |-> "none", db |-> d5]

(***************************************************************************)
(* io.py / structure.py: the directory skeleton.                           *)
(***************************************************************************)
\* io.remove_dir calls shutil.rmdir, which the standard library does not
\* have: the call raises AttributeError and removes nothing
remove_dir(ds, t) == [exc |-> "AttributeError", dirs |-> ds]

\* a skeleton set up over whatever exists
create_dir_skeleton_over_existing(ds, t, hard) ==
    [exc |-> "none", dirs |-> ds \cup {t}]

\* structure.create_dir_skeleton, the version cli.py imports
create_dir_skeleton(ds, t, hard) ==
    IF t \in ds
    THEN IF ~hard
         THEN [exc |-> "BscanForceSkipTarget", dirs |-> ds]
         ELSE LET r == remove_dir(ds, t)
              IN  IF r.exc # "none"
                  THEN r
                  ELSE [exc |-> "none", dirs |-> r.dirs \cup {t}]
    ELSE [exc |-> "none", dirs |-> ds \cup {t}]

(***************************************************************************)
(* cli.main's exception handlers (cli.py 287-304).                         *)
(***************************************************************************)
\* handlers that answer every exception with exit code 1
main_handler_all_exit1(exc) == "exit1"

main_handler(exc) ==
    IF exc \in {"BscanConfigError", "BscanForceSilentExit",
                "BscanInternalError", "BscanSubprocessError", "BscanError"}
    THEN "exit1"
    ELSE "raised"

(***************************************************************************)
(* The state at the start of cli.main.                                     *)
(***************************************************************************)
Namespaces ==
    [targets : SeqUpTo(Candidates, MaxTargets),
     max_concurrency : 0..MaxConc,
     cmd_print_width : {4, 80},
     hard : BOOLEAN,
     quick_only : BOOLEAN,
     qs_method : QsMethodArgs,
     brute_pass_list : BrutePassLists,
     status_interval : {0, 1},
     ping_sweep : BOOLEAN,
     udp : {FALSE}]

NoTasks == << >>

\* no call of join_services is under way
JoinIdle ==
    /\ defined_services = << >>
    /\ join_pc = "idle"
    /\ join_arg = {}
    /\ join_res = << >>
    /\ join_res2 = << >>

\* no DetectedService is being templated
TemplateIdle ==
    /\ tmpl_ds = << >>
    /\ tmpl_files = {}
    /\ tmpl_scans = << >>
    /\ tmpl_recs = << >>

\* no scan_target coroutine is followed through its data
PipelineIdle ==
    /\ pl_pc = "idle"
    /\ pl_defined = << >>
    /\ pl_qs = {}
    /\ pl_ts = {}
    /\ pl_qs_joined = << >>
    /\ pl_ts_joined = << >>
    /\ pl_spawned = << >>
    /\ pl_fouts1 = {}
    /\ pl_fouts2 = {}
    /\ pl_built_on = {}
    /\ pl_files = {}
    /\ pl_recs = << >>
    /\ pl_gather = [returned |-> << >>, done |-> << >>, res |-> << >>]

\* shortened_cmd() is not being called
ShortenIdle ==
    /\ sc_cmd = << >>
    /\ sc_length = 0
    /\ sc_out = << >>

\* a RuntimeStats tuple
RuntimeStats(num_active_targets, num_total_subprocs) ==
    [num_active_targets |-> num_active_targets,
     num_total_subprocs |-> num_total_subprocs]

\* status_update_poller is not followed through its loop
PollerIdle ==
    /\ po_pc = "idle"
    /\ po_by_main = FALSE
    /\ po_exc = "none"
    /\ po_elapsed = 0
    /\ po_stats = RuntimeStats(0, 0)
    /\ po_wakes = 0
    /\ po_lines = << >>

\* no scan is followed through its output stream
StreamIdle ==
    /\ st_pc = "idle"
    /\ st_scan = "none"
    /\ st_script = << >>
    /\ st_sent = 0
    /\ st_read = 0
    /\ st_os = "none"
    /\ st_code = 0
    /\ st_services = {}
    /\ st_warned = FALSE
    /\ st_ret = "none"
    /\ st_exc = "none"

\* no coroutine is followed through the calls of the runtime module
LockIdle ==
    /\ lk_holder = 0
    /\ lk_running = 0
    /\ lk_pc = << >>
    /\ lk_op = << >>
    /\ lk_exc = << >>
    /\ lk_count = 0
    /\ lk_unlocked = FALSE

\* gather_throttled is not being called
GatherIdle ==
    /\ gt_pc = "idle"
    /\ gt_aws = << >>
    /\ gt_lo = 0
    /\ gt_hi = 0

\* none of the other function-level specifications is under way
FnIdle == ShortenIdle /\ PollerIdle /\ StreamIdle /\ LockIdle /\ GatherIdle

Init ==
    /\ JoinIdle
    /\ TemplateIdle
    /\ PipelineIdle
    /\ FnIdle
    /\ opts \in Namespaces
    /\ dirs \in SUBSET Hosts
    /\ main_pc = "start"
    /\ main_result = "running"
    /\ cand_idx = 1
    /\ targets = << >>
    /\ db = << >>
    /\ subprocesses = << >>
    /\ task_pc = NoTasks
    /\ next_start = 0
    /\ poller_pc = "absent"
    /\ procs = {}
    /\ first_exc = "none"

(***************************************************************************)
(* cli.main, up to the gather of the scan tasks.                           *)
(***************************************************************************)
MainEnd(result) ==
    /\ main_pc' = "done"
    /\ main_result' = result

\* cli.py 226-236: --max-concurrency must be an integer >= 1
MainParseArgs ==
    /\ main_pc = "start"
    /\ IF opts.max_concurrency < 1
       THEN MainEnd(main_handler("BscanConfigError"))
       ELSE main_pc' = "config" /\ UNCHANGED main_result
    /\ UNCHANGED <<opts, cand_idx, targets, dirs, db, subprocesses, task_pc,
                   next_start, poller_pc, procs, first_exc>>
    /\ UNCHANGED unitVars

\* cli.py 238-247: the Sublemon server is created and stored, the
\* configuration is initialised, an empty target list ends the run
MainInitConfig ==
    /\ main_pc = "config"
    /\ LET r == init_config(
                    write_db_value(db, "sublemon", opts.max_concurrency),
                    opts)
       IN  /\ db' = r.db
           /\ subprocesses' = << >>
           /\ IF r.exc # "none"
              THEN MainEnd(main_handler(r.exc))
              ELSE IF opts.targets = << >>
              THEN MainEnd("exit1")
              ELSE main_pc' = "targets" /\ UNCHANGED main_result
    /\ UNCHANGED <<opts, cand_idx, targets, dirs, task_pc, next_start,
                   poller_pc, procs, first_exc>>
    /\ UNCHANGED unitVars

\* cli.py 252-273: one iteration of the loop over opts.targets
MainCandidate ==
    /\ main_pc = "targets"
    /\ cand_idx <= Len(opts.targets)
    /\ LET candidate == opts.targets[cand_idx]
           r == create_dir_skeleton(dirs, candidate,
                                    get_db_value(db, "hard"))
       IN  IF ~is_valid_host(candidate)
           THEN \* a network or an unparseable candidate is skipped
                /\ cand_idx' = cand_idx + 1
                /\ UNCHANGED <<targets, dirs, main_pc, main_result>>
           ELSE IF r.exc = "BscanForceSkipTarget"
           THEN /\ cand_idx' = cand_idx + 1
                /\ UNCHANGED <<targets, dirs, main_pc, main_result>>
           ELSE IF r.exc # "none"
           THEN /\ MainEnd(main_handler(r.exc))
                /\ dirs' = r.dirs
                /\ UNCHANGED <<targets, cand_idx>>
           ELSE /\ dirs' = r.dirs
                /\ targets' = Append(targets, candidate)
                /\ cand_idx' = cand_idx + 1
                /\ UNCHANGED <<main_pc, main_result>>
    /\ UNCHANGED <<opts, db, subprocesses, task_pc, next_start, poller_pc,
                   procs, first_exc>>
    /\ UNCHANGED unitVars

\* cli.py 275-283: no valid target ends the run; otherwise one scan_target
\* coroutine per target, and the status poller when the interval is > 0,
\* are handed to asyncio.gather.  No target is entered in
\* db['subprocesses'] here: init_subproc_set is called nowhere.
MainKickoff ==
    /\ main_pc = "targets"
    /\ cand_idx > Len(opts.targets)
    /\ IF targets = << >>
       THEN /\ MainEnd("exit1")
            /\ UNCHANGED <<task_pc, poller_pc>>
       ELSE /\ main_pc' = "gather"
            /\ task_pc' = [i \in 1..Len(targets) |-> "new"]
            /\ poller_pc' = IF get_db_value(db, "status-interval") > 0
                            THEN "new" ELSE "absent"
            /\ UNCHANGED main_result
    /\ UNCHANGED <<opts, cand_idx, targets, dirs, db, subprocesses,
                   next_start, procs, first_exc>>
    /\ UNCHANGED unitVars

(***************************************************************************)
(* runtime.py: tracking of the running subprocesses.                       *)
(***************************************************************************)
\* _get_subproc_set raises for a target that has no set
has_subproc_set(sp, t) == t \in DOMAIN sp

\* remove_subproc_set(target): the exception it raises, if any, and
\* db['subprocesses'] afterwards
remove_subproc_set(sp, t) ==
    IF ~has_subproc_set(sp, t)
    THEN [exc |-> "BscanInternalError", sp |-> sp]
    ELSE [exc |-> "none", sp |-> [u \in DOMAIN sp \ {t} |-> sp[u]]]

\* add_running_subproc(target, cmd)
add_running_subproc(sp, t, cmd) ==
    IF ~has_subproc_set(sp, t)
    THEN [exc |-> "BscanInternalError", sp |-> sp]
    ELSE IF cmd \in sp[t]
    THEN [exc |-> "BscanInternalError", sp |-> sp]
    ELSE [exc |-> "none", sp |-> [sp EXCEPT ![t] = @ \cup {cmd}]]

\* remove_running_subproc(target, cmd)
remove_running_subproc(sp, t, cmd) ==
    IF ~has_subproc_set(sp, t)
    THEN [exc |-> "BscanInternalError", sp |-> sp]
    ELSE IF cmd \notin sp[t]
    THEN [exc |-> "BscanInternalError", sp |-> sp]
    ELSE [exc |-> "none", sp |-> [sp EXCEPT ![t] = @ \ {cmd}]]

(***************************************************************************)
(* scans.py: scan_target and proc_spawn.  A subprocess record carries the  *)
(* position of the proc_spawn call that made it (pc) and the state of the  *)
(* child in the operating system (os).                                     *)
(***************************************************************************)
\* most service scans that one join of services gives rise to
MaxScans == 1

\* UNIC_QUICK_SCAN.format(target=..., fout=get_scan_file(target, ...))
UNIC_QUICK_SCAN(t) == <<"unicornscan", t, "tcp.quick.unicornscan">>

\* NMAP_TCP_SCAN.format(target=..., fout=get_scan_file(target, ...))
NMAP_TCP_SCAN(t) == <<"nmap", t, "tcp.thorough.nmap">>

\* the n-th command that build_scans() returned for a target
ServiceScan(t, n) == <<"service-scan", t, n>>

\* the subprocesses that exist in the operating system and have not exited
LiveProcs == {p \in procs : p.os = "live"}

\* an exception leaves a gathered task: asyncio.gather hands the first one
\* to cli.main
Raise(exc) ==
    first_exc' = IF first_exc = "none" THEN exc ELSE first_exc

\* asyncio.create_subprocess_shell (scans.py 186-189): the child is forked
\* at once, with no regard to --max-concurrency or to the Sublemon server
create_subprocess_shell(i, t, cmd) ==
    [task |-> i, target |-> t, cmd |-> cmd, pc |-> "forked", os |-> "live"]

\* a gather that returns at once
AllReaped_unawaited(ps, i) == TRUE

\* a gather that returns as soon as every child has been spawned
AllReaped_once_spawned(ps, i) == \A p \in ps : p.task = i => p.pc # "forked"

\* the proc_spawn calls of pipeline i have all run to their end
AllReaped(ps, i) == \A p \in ps : p.task = i => p.pc = "reaped"

\* a first fanout that leaves the thorough scan for later
FanOut_without_thorough(i, t, from, k, thorough) ==
    {create_subprocess_shell(i, t, ServiceScan(t, n)) : n \in from..(from + k - 1)}

\* the commands that scan_target gathers after a join of services that
\* gave k service scans numbered from `from` (scans.py 65-73)
FanOut(i, t, from, k, thorough) ==
    {create_subprocess_shell(i, t, ServiceScan(t, n)) : n \in from..(from + k - 1)}
        \cup (IF thorough
              THEN {create_subprocess_shell(i, t, NMAP_TCP_SCAN(t))}
              ELSE {})

\* scans.py 91-115: the UDP notice, the recommendations file and
\* remove_subproc_set, with which the pipeline retires
Retire(i) ==
    IF ~has_db_value(db, "udp")
    THEN /\ task_pc' = [task_pc EXCEPT ![i] = "failed"]
         /\ Raise("BscanInternalError")
         /\ UNCHANGED subprocesses
    ELSE LET r == remove_subproc_set(subprocesses, targets[i])
         IN  /\ subprocesses' = r.sp
             /\ IF r.exc # "none"
                THEN /\ task_pc' = [task_pc EXCEPT ![i] = "failed"]
                     /\ Raise(r.exc)
                ELSE /\ task_pc' = [task_pc EXCEPT ![i] = "retired"]
                     /\ UNCHANGED first_exc

\* First step of scan_target(targets[i]): scans.py 55-58, run_qs 120-124,
\* run_unicornscan_qs 129-135 and proc_spawn 185-189, up to the await of
\* create_subprocess_shell.  The gathered tasks take their first steps in
\* the order of the task list.
TaskStart(i) ==
    /\ main_pc = "gather"
    /\ i = next_start + 1
    /\ i <= Len(targets)
    /\ task_pc[i] = "new"
    /\ next_start' = i
    /\ IF ~(has_db_value(db, "quick-only") /\ has_db_value(db, "quick-scan"))
       THEN /\ task_pc' = [task_pc EXCEPT ![i] = "failed"]
            /\ Raise("BscanInternalError")
            /\ UNCHANGED procs
       ELSE IF get_db_value(db, "quick-scan") # "unicornscan"
       THEN \* run_nmap_qs
            /\ task_pc' = [task_pc EXCEPT ![i] = "failed"]
            /\ Raise("NotImplementedError")
            /\ UNCHANGED procs
       ELSE IF ~has_db_value(db, "output-dir")
       THEN /\ task_pc' = [task_pc EXCEPT ![i] = "failed"]
            /\ Raise("BscanInternalError")
            /\ UNCHANGED procs
       ELSE /\ procs' = procs \cup
                   {create_subprocess_shell(i, targets[i],
                                            UNIC_QUICK_SCAN(targets[i]))}
            /\ task_pc' = [task_pc EXCEPT ![i] = "quick"]
            /\ UNCHANGED first_exc
    /\ UNCHANGED <<opts, main_pc, main_result, cand_idx, targets, dirs, db,
                   subprocesses, poller_pc>>
    /\ UNCHANGED unitVars

\* an exception leaves proc_spawn: it ends the pipeline that awaits the
\* call, unless the pipeline has ended already
FailTask(i, exc) ==
    /\ task_pc' = [task_pc EXCEPT ![i] = "failed"]
    /\ IF task_pc[i] = "failed" THEN UNCHANGED first_exc ELSE Raise(exc)

\* proc_spawn resumes after create_subprocess_shell (scans.py 190):
\* add_running_subproc, then the wait for the output of the child
ProcSpawned(p) ==
    /\ main_pc = "gather"
    /\ p \in procs
    /\ p.pc = "forked"
    /\ LET r == add_running_subproc(subprocesses, p.target, p.cmd)
       IN  /\ subprocesses' = r.sp
           /\ IF r.exc # "none"
              THEN /\ procs' = (procs \ {p}) \cup {[p EXCEPT !.pc = "add-failed"]}
                   /\ FailTask(p.task, r.exc)
              ELSE /\ procs' = (procs \ {p})
                                   \cup {[p EXCEPT !.pc = "streaming"]}
                   /\ UNCHANGED <<task_pc, first_exc>>
    /\ UNCHANGED <<opts, main_pc, main_result, cand_idx, targets, dirs, db,
                   next_start, poller_pc>>
    /\ UNCHANGED unitVars

\* a subprocess ends in the operating system
ProcExit(p) ==
    /\ main_pc = "gather"
    /\ p \in LiveProcs
    /\ procs' = (procs \ {p}) \cup {[p EXCEPT !.os = "exited"]}
    /\ UNCHANGED <<opts, main_pc, main_result, cand_idx, targets, dirs, db,
                   subprocesses, task_pc, next_start, poller_pc, first_exc>>
    /\ UNCHANGED unitVars

\* proc_spawn 195-202: the output has ended, proc.wait() returns the exit
\* code and remove_running_subproc takes the command out of the set
ProcReaped(p) ==
    /\ main_pc = "gather"
    /\ p \in procs
    /\ p.pc = "streaming"
    /\ p.os = "exited"
    /\ LET r == remove_running_subproc(subprocesses, p.target, p.cmd)
       IN  /\ subprocesses' = r.sp
           /\ IF r.exc # "none"
              THEN /\ procs' = (procs \ {p}) \cup {[p EXCEPT !.pc = "remove-failed"]}
                   /\ FailTask(p.task, r.exc)
              ELSE /\ procs' = (procs \ {p}) \cup {[p EXCEPT !.pc = "reaped"]}
                   /\ UNCHANGED <<task_pc, first_exc>>
    /\ UNCHANGED <<opts, main_pc, main_result, cand_idx, targets, dirs, db,
                   next_start, poller_pc>>
    /\ UNCHANGED unitVars

\* scans.py 58-73: the quick scan has ended; its services are joined, the
\* k service scans that build_scans() gives are gathered together with the
\* thorough scan (unless --quick-only).  With nothing to gather the
\* pipeline runs on to its end in the same step.
TaskQuickDone(i, k) ==
    /\ main_pc = "gather"
    /\ i \in DOMAIN task_pc
    /\ task_pc[i] = "quick"
    /\ AllReaped(procs, i)
    /\ LET do_thorough == ~get_db_value(db, "quick-only")
           scans == FanOut(i, targets[i], 1, k, do_thorough)
       IN  IF scans # {}
           THEN /\ procs' = procs \cup scans
                /\ task_pc' = [task_pc EXCEPT ![i] = "scans"]
                /\ UNCHANGED <<subprocesses, first_exc>>
           ELSE /\ Retire(i)
                /\ UNCHANGED procs
    /\ UNCHANGED <<opts, main_pc, main_result, cand_idx, targets, dirs, db,
                   next_start, poller_pc>>
    /\ UNCHANGED unitVars

\* scans.py 73-89: the gathered scans have ended; the services that only
\* the thorough scan found are joined and their k service scans gathered.
\* Without a thorough scan, or with no new service scan, the pipeline runs
\* on to its end.
TaskScansDone(i, k) ==
    /\ main_pc = "gather"
    /\ i \in DOMAIN task_pc
    /\ task_pc[i] = "scans"
    /\ AllReaped(procs, i)
    /\ LET do_thorough == ~get_db_value(db, "quick-only")
           scans == IF do_thorough
                    THEN FanOut(i, targets[i], MaxScans + 1, k, FALSE)
                    ELSE {}
       IN  IF scans # {}
           THEN /\ procs' = procs \cup scans
                /\ task_pc' = [task_pc EXCEPT ![i] = "new-scans"]
                /\ UNCHANGED <<subprocesses, first_exc>>
           ELSE /\ Retire(i)
                /\ UNCHANGED procs
    /\ UNCHANGED <<opts, main_pc, main_result, cand_idx, targets, dirs, db,
                   next_start, poller_pc>>
    /\ UNCHANGED unitVars

\* scans.py 89-115: the service scans of the new services have ended
TaskNewScansDone(i) ==
    /\ main_pc = "gather"
    /\ i \in DOMAIN task_pc
    /\ task_pc[i] = "new-scans"
    /\ AllReaped(procs, i)
    /\ Retire(i)
    /\ UNCHANGED <<opts, main_pc, main_result, cand_idx, targets, dirs, db,
                   next_start, poller_pc, procs>>
    /\ UNCHANGED unitVars

\* First step of status_update_poller (runtime.py 299-305): the task starts
\* after the scan tasks, which precede it in the task list
PollerStart ==
    /\ main_pc = "gather"
    /\ poller_pc = "new"
    /\ next_start = Len(targets)
    /\ next_start' = next_start + 1
    /\ IF ~(/\ has_db_value(db, "status-interval")
            /\ has_db_value(db, "verbose-status")
            /\ has_db_value(db, "cmd-print-length"))
       THEN poller_pc' = "failed" /\ Raise("BscanInternalError")
       ELSE IF get_db_value(db, "status-interval") <= 0
       THEN poller_pc' = "failed" /\ Raise("BscanInternalError")
       ELSE poller_pc' = "polling" /\ UNCHANGED first_exc
    /\ UNCHANGED <<opts, main_pc, main_result, cand_idx, targets, dirs, db,
                   subprocesses, task_pc, procs>>
    /\ UNCHANGED unitVars

\* the number of tasks handed to asyncio.gather (cli.py 280-282)
NumTasks == Len(targets) + (IF poller_pc = "absent" THEN 0 ELSE 1)

\* cli.py 283-304: cli.main resumes after every task has taken its first
\* step (they are scheduled before gather's result is); gather returns
\* once every task has finished, or raises the first exception of a task
\* into cli.main's handlers
MainGatherEnd ==
    /\ main_pc = "gather"
    /\ next_start = NumTasks
    /\ IF first_exc # "none"
       THEN MainEnd(main_handler(first_exc))
       ELSE /\ \A i \in DOMAIN task_pc : task_pc[i] = "retired"
            /\ poller_pc \in {"absent", "finished"}
            /\ MainEnd("exit0")
    /\ UNCHANGED <<opts, cand_idx, targets, dirs, db, subprocesses, task_pc,
                   next_start, poller_pc, procs, first_exc>>
    /\ UNCHANGED unitVars

\* a run of cli.main
Next ==
    \/ MainParseArgs
    \/ MainInitConfig
    \/ MainCandidate
    \/ MainKickoff
    \/ \E i \in 1..MaxTargets : TaskStart(i)
    \/ PollerStart
    \/ MainGatherEnd

Spec == Init /\ [][Next]_vars

(***************************************************************************)
(* The scan layer on its own: scan_target coroutines gathered over the     *)
(* store that runtime.init_db builds, with db['subprocesses'] holding an   *)
(* empty set for the targets that init_subproc_set was called for.         *)
(***************************************************************************)
\* runtime.init_db, in the order of its statements
init_db(d, ns) ==
    LET d1 == write_db_value(write_db_value(d,
                  "brute-pass-list", "path"),
                  "brute-user-list", "path")
        d2 == write_db_value(write_db_value(write_db_value(
              write_db_value(d1,
                  "cmd-print-width", ns.cmd_print_width),
                  "max-concurrency", ns.max_concurrency),
                  "output-dir", "path"),
                  "patterns", "regex")
        d3 == write_db_value(write_db_value(write_db_value(
              write_db_value(write_db_value(write_db_value(d2,
                  "quick-scan", "unicornscan"),
                  "services", "toml"),
                  "status-interval", ns.status_interval),
                  "subprocesses", "dict"),
                  "web-word-list", "path"),
                  "quick-only", ns.quick_only)
        d4 == write_db_value(d3, "hard", ns.hard)
        d5 == write_db_value(write_db_value(write_db_value(d4,
                  "ping-sweep", ns.ping_sweep),
                  "udp", ns.udp),
                  "verbose-status", FALSE)
    IN  IF ns.cmd_print_width < 5
        THEN [exc |-> "BscanConfigError", db |-> d1]
        ELSE IF ns.quick_scan # "unicornscan"
        THEN [exc |-> "BscanConfigError", db |-> d2]
        ELSE IF ns.ping_sweep
        THEN [exc |-> "BscanConfigError", db |-> d4]
        ELSE [exc |-> "none", db |-> d5]

\* the command lines runtime.init_db is given
ScanNamespaces ==
    [max_concurrency : 1..MaxConc,
     cmd_print_width : {4, 80},
     hard : {FALSE},
     quick_only : BOOLEAN,
     quick_scan : {"unicornscan", "nmap"},
     status_interval : {0},
     ping_sweep : BOOLEAN,
     udp : {FALSE}]

\* the same command lines with a status interval of one second
StatusNamespaces ==
    {[ns EXCEPT !.status_interval = 1] : ns \in ScanNamespaces}

\* the elements of a list
Range(seq) == {seq[i] : i \in DOMAIN seq}

\* the scan tasks of a non-empty target list, and the status poller when
\* the interval is > 0 (cli.py 280-283), have been handed to asyncio.gather
\* over a store that init_db accepted
ScanInit(namespaces) ==
    /\ JoinIdle
    /\ TemplateIdle
    /\ PipelineIdle
    /\ FnIdle
    /\ opts \in namespaces
    /\ init_db(<< >>, opts).exc = "none"
    /\ db = init_db(<< >>, opts).db
    /\ targets \in {s \in SeqUpTo(Hosts, MaxTargets) \ {<< >>} :
                       \A i, j \in DOMAIN s : s[i] = s[j] => i = j}
    /\ subprocesses \in {[t \in A |-> {}] : A \in SUBSET Range(targets)}
    /\ dirs = Range(targets)
    /\ main_pc = "gather"
    /\ main_result = "running"
    /\ cand_idx = 1
    /\ task_pc = [i \in 1..Len(targets) |-> "new"]
    /\ next_start = 0
    /\ poller_pc = IF get_db_value(db, "status-interval") > 0
                   THEN "new" ELSE "absent"
    /\ procs = {}
    /\ first_exc = "none"

\* the scan tasks alone
InitScan == ScanInit(ScanNamespaces)

NextScan ==
    \/ \E i \in 1..MaxTargets : TaskStart(i)
    \/ \E p \in procs : ProcSpawned(p)
    \/ \E p \in procs : ProcExit(p)
    \/ \E p \in procs : ProcReaped(p)
    \/ \E i \in 1..MaxTargets, k \in 0..MaxScans : TaskQuickDone(i, k)
    \/ \E i \in 1..MaxTargets, k \in 0..MaxScans : TaskScansDone(i, k)
    \/ \E i \in 1..MaxTargets : TaskNewScansDone(i)
    \/ MainGatherEnd

SpecScan == InitScan /\ [][NextScan]_vars

\* the scan tasks and the status poller
InitScanStatus == ScanInit(StatusNamespaces)

NextScanStatus ==
    \/ \E i \in 1..MaxTargets : TaskStart(i)
    \/ \E p \in procs : ProcSpawned(p)
    \/ \E p \in procs : ProcExit(p)
    \/ \E p \in procs : ProcReaped(p)
    \/ \E i \in 1..MaxTargets, k \in 0..MaxScans : TaskQuickDone(i, k)
    \/ \E i \in 1..MaxTargets, k \in 0..MaxScans : TaskScansDone(i, k)
    \/ \E i \in 1..MaxTargets : TaskNewScansDone(i)
    \/ PollerStart
    \/ MainGatherEnd

SpecScanStatus == InitScanStatus /\ [][NextScanStatus]_vars

(***************************************************************************)
(* Claims about the scan layer.                                            *)
(***************************************************************************)
\* the scan tasks are running
Scanning == main_pc = "gather"

\* C1: in every state of a run with --max-concurrency N >= 1 the number of
\* live spawned subprocesses, summed over all targets, is at most N.
C1_LiveWithinMaxConcurrency ==
    Scanning => Cardinality(LiveProcs) <= get_db_value(db, "max-concurrency")

\* C3: a caller that requests a spawn while N subprocesses are live is
\* suspended until a slot is free: no step creates a subprocess while
\* N are live.
C3_SpawnWaitsForFreeSlot ==
    [][Cardinality(LiveProcs') > Cardinality(LiveProcs)
          => Cardinality(LiveProcs) < get_db_value(db, "max-concurrency")]_vars

\* C6: from the moment proc_spawn has created a subprocess until its exit
\* code has been observed by wait(), the subprocess's command is a member
\* of its target's running set.
C6_LiveProcInRunningSet ==
    \A p \in procs :
        (Scanning /\ p.pc \in {"streaming", "add-failed"})
            => /\ has_subproc_set(subprocesses, p.target)
               /\ p.cmd \in subprocesses[p.target]

(***************************************************************************)
(* Claims about a run of cli.main.                                         *)
(***************************************************************************)
\* a pipeline that has started and has neither retired nor failed
InProgress(i) == task_pc[i] \notin {"new", "retired", "failed"}

\* C2: once the subprocesses are given time to exit, every admitted
\* target's pipeline retires and cli.main returns: when cli.main has ended
\* after it kicked off the pipelines, each of them has retired and the exit
\* code is 0.
C2_PipelinesRetireAndMainReturns ==
    (main_pc = "done" /\ task_pc # NoTasks)
        => /\ \A i \in DOMAIN task_pc : task_pc[i] = "retired"
           /\ main_result = "exit0"

\* a pipeline that has started and has not retired
StartedNotRetired(i) == task_pc[i] \notin {"new", "retired"}

\* C4: a target handed to scan_target is a key of db['subprocesses'] in
\* exactly the states where its pipeline has started and not yet retired.
C4_ActiveTargetsAreRunningPipelines ==
    \A i \in DOMAIN task_pc :
        StartedNotRetired(i) <=> has_subproc_set(subprocesses, targets[i])

\* the command line names one host twice
RepeatsTarget ==
    \E i, j \in DOMAIN opts.targets :
        i < j /\ opts.targets[i] = opts.targets[j] /\ opts.targets[i] \in Hosts

\* the configuration is accepted
ValidConfig ==
    /\ opts.max_concurrency >= 1
    /\ opts.cmd_print_width >= 5
    /\ ~opts.ping_sweep

\* C5: at most one pipeline instance executes for a target; a target given
\* twice with --hard is admitted once and its second admission fails with
\* an internal error (exit code 1).
C5_OnePipelinePerTarget ==
    /\ \A i, j \in DOMAIN task_pc :
           (i # j /\ InProgress(i) /\ InProgress(j))
               => targets[i] # targets[j]
    /\ (main_pc = "done" /\ ValidConfig /\ opts.hard /\ RepeatsTarget)
           => main_result = "exit1"

(***************************************************************************)
(* scans.py: join_services.                                                *)
(***************************************************************************)
\* largest port number of a ParsedService
MaxPort == 2
\* largest number of protocol tables in db['services']
MaxRules == 2
\* largest number of ParsedService in the set given to join_services
MaxServices == 3

\* the service names that a port scan reports
ServiceNames == {"http", "http-proxy", "ssh"}
Ports == 1..MaxPort

\* models.ParsedService: a namedtuple (name, port)
ParsedService == [name : ServiceNames, port : Ports]

\* the protocol keys of db['services'], in configuration order
ProtocolKeys == <<"http", "ssh", "smb", "ftp">>

\* db['services']: the protocol tables in configuration order; each lists
\* the service names it matches ('nmap-service-names'), its scans and its
\* recommendations (both left empty here: join_services only copies them)
ServiceConfigs ==
    UNION {[1..k -> [names : SUBSET ServiceNames,
                     scans : {<< >>},
                     recommendations : {<< >>}]] : k \in 0..MaxRules}

\* tuple(sorted(s.port for s in matches)): one entry for each matched
\* service, in non-decreasing order of port
RECURSIVE sorted_ports(_)
sorted_ports(matches) ==
    IF matches = {}
    THEN << >>
    ELSE LET m == CHOOSE s \in matches : \A u \in matches : s.port <= u.port
         IN  <<m.port>> \o sorted_ports(matches \ {m})

\* matches = [s for s in services if s.name in config['nmap-service-names']]
service_matches(services, config) ==
    {s \in services : s.name \in config.names}

\* a join that forgets to take the matches out of the unmatched set
remove_matches_forgotten(unmatched_services, matches) ==
    unmatched_services

\* unmatched_services -= set(matches)
remove_matches(unmatched_services, matches) ==
    unmatched_services \ matches

\* models.DetectedService, built at scans.py 222-227
DetectedService(protocol, target, matches, config) ==
    [name |-> protocol, target |-> target, ports |-> sorted_ports(matches),
     scans |-> config.scans, recommendations |-> config.recommendations]

\* the loop of join_services over defined_services.items(), from the k-th
\* protocol table on; matched records the list `matches` of each protocol
\* that produced a DetectedService
RECURSIVE join_loop(_, _, _, _, _, _, _)
join_loop(defined, k, target, services, unmatched_services, joined_services, matched) ==
    IF k > Len(defined)
    THEN [unmatched |-> unmatched_services, joined |-> joined_services,
          matched |-> matched]
    ELSE LET matches == service_matches(services, defined[k])
         IN  IF matches # {}
             THEN join_loop(defined, k + 1, target, services,
                            remove_matches(unmatched_services, matches),
                            Append(joined_services,
                                   DetectedService(ProtocolKeys[k], target,
                                                   matches, defined[k])),
                            Append(matched, matches))
             ELSE join_loop(defined, k + 1, target, services,
                            unmatched_services, joined_services, matched)

join_services(defined, target, services) ==
    join_loop(defined, 1, target, services, services, << >>, << >>)

\* the run of cli.main is not part of the function-level specifications
MainIdle ==
    /\ opts = << >>
    /\ dirs = {}
    /\ main_pc = "idle"
    /\ main_result = "running"
    /\ cand_idx = 1
    /\ targets = << >>
    /\ db = << >>
    /\ subprocesses = << >>
    /\ task_pc = NoTasks
    /\ next_start = 0
    /\ poller_pc = "absent"
    /\ procs = {}
    /\ first_exc = "none"

\* join_services is called with any set of at most MaxServices services and
\* any service configuration
InitJoin ==
    /\ MainIdle
    /\ TemplateIdle
    /\ PipelineIdle
    /\ FnIdle
    /\ defined_services \in ServiceConfigs
    /\ join_arg \in {S \in SUBSET ParsedService : Cardinality(S) <= MaxServices}
    /\ join_pc = "called"
    /\ join_res = << >>
    /\ join_res2 = << >>

\* join_services(target, services)
JoinServices ==
    /\ join_pc = "called"
    /\ join_res' = join_services(defined_services, "h1", join_arg)
    /\ join_pc' = "joined"
    /\ UNCHANGED <<mainVars, tmplVars, plVars, fnVars, defined_services, join_arg, join_res2>>

\* join_services(target, unmatched) on the unmatched set of the first call
JoinUnmatched ==
    /\ join_pc = "joined"
    /\ join_res2' = join_services(defined_services, "h1", join_res.unmatched)
    /\ join_pc' = "rejoined"
    /\ UNCHANGED <<mainVars, tmplVars, plVars, fnVars, defined_services, join_arg, join_res>>

NextJoin ==
    \/ JoinServices
    \/ JoinUnmatched

SpecJoin == InitJoin /\ [][NextJoin]_vars

\* the sets of a sequence of sets are pairwise disjoint
PairwiseDisjoint(sets) ==
    \A i, j \in DOMAIN sets : i # j => sets[i] \cap sets[j] = {}

\* C7: join_services partitions its input: the unmatched set and the
\* services matched into each DetectedService are pairwise disjoint and
\* their union is the input, so a service named by two protocol tables is
\* matched by the first one only.
C7_JoinPartitionsInput ==
    join_pc # "called" =>
        LET parts == Append(join_res.matched, join_res.unmatched)
        IN  /\ PairwiseDisjoint(parts)
            /\ UNION {parts[i] : i \in DOMAIN parts} = join_arg

\* a sequence of numbers is strictly increasing
StrictlyIncreasing(seq) ==
    \A i, j \in DOMAIN seq : i < j => seq[i] < seq[j]

\* C8: every DetectedService returned by join_services has a non-empty,
\* strictly increasing port list.
C8_PortsStrictlyIncreasing ==
    join_pc # "called" =>
        \A i \in DOMAIN join_res.joined :
            /\ join_res.joined[i].ports # << >>
            /\ StrictlyIncreasing(join_res.joined[i].ports)

\* C9: join_services applied to the unmatched set that join_services
\* returned gives back that set as unmatched and no DetectedService.
C9_JoinIdempotentOnResidual ==
    join_pc = "rejoined" =>
        /\ join_res2.unmatched = join_res.unmatched
        /\ join_res2.joined = << >>

\* a second join of a non-empty residual left by a join that matched
\* something
C9_Witness ==
    /\ join_pc = "rejoined"
    /\ join_res.unmatched # {}
    /\ join_res.joined # << >>

(***************************************************************************)
(* models.py: DetectedService and its templater.  A Python string is a     *)
(* sequence of one-character strings, so that str.replace and the `in`     *)
(* test on strings are computed on the characters.                         *)
(***************************************************************************)
\* most pieces a template is put together from
MaxTokens == 2

\* the template parameters
TARGET == <<"<", "t", "a", "r", "g", "e", "t", ">">>
PORT == <<"<", "p", "o", "r", "t", ">">>
PORTS == <<"<", "p", "o", "r", "t", "s", ">">>
FOUT == <<"<", "f", "o", "u", "t", ">">>
WORDLIST == <<"<", "w", "o", "r", "d", "l", "i", "s", "t", ">">>
USERLIST == <<"<", "u", "s", "e", "r", "l", "i", "s", "t", ">">>
PASSLIST == <<"<", "p", "a", "s", "s", "l", "i", "s", "t", ">">>

Placeholders == {TARGET, PORT, PORTS, FOUT, WORDLIST, USERLIST, PASSLIST}

\* a piece of a command line that is no template parameter
ToolWord == <<"x", " ">>

\* sub occurs in s at position i
starts_at(s, i, sub) ==
    /\ i + Len(sub) - 1 <= Len(s)
    /\ \A k \in 1..Len(sub) : s[i + k - 1] = sub[k]

\* Python's `sub in s`
contains(s, sub) == \E i \in 1..Len(s) : starts_at(s, i, sub)

\* Python's s.replace(old, new): the occurrences of old are found from left
\* to right, without overlap
RECURSIVE replace_from(_, _, _, _)
replace_from(s, i, old, new) ==
    IF i > Len(s)
    THEN << >>
    ELSE IF starts_at(s, i, old)
    THEN new \o replace_from(s, i + Len(old), old, new)
    ELSE <<s[i]>> \o replace_from(s, i + 1, old, new)

replace(s, old, new) == replace_from(s, 1, old, new)

\* str(n) of a non-negative integer
Digits == <<"0", "1", "2", "3", "4", "5", "6", "7", "8", "9">>

RECURSIVE str_int(_)
str_int(n) ==
    IF n < 10
    THEN <<Digits[n + 1]>>
    ELSE str_int(n \div 10) \o <<Digits[(n % 10) + 1]>>

\* sep.join(parts)
RECURSIVE str_join(_, _)
str_join(sep, parts) ==
    IF parts = << >>
    THEN << >>
    ELSE IF Len(parts) = 1
    THEN parts[1]
    ELSE parts[1] \o sep \o str_join(sep, Tail(parts))

\* [str(p) for p in self.ports]
port_strs(ds) == [i \in DOMAIN ds.ports |-> str_int(ds.ports[i])]

\* DetectedService.port_str
port_str(ds) == str_join(<<",">>, port_strs(ds))

\* the configured paths: db['output-dir'], db['web-word-list'],
\* db['brute-user-list'], db['brute-pass-list']
OutputDir == <<"/", "o">>
WebWordList == <<"/", "w">>
BruteUserList == <<"/", "u">>
BrutePassList == <<"/", "p">>

\* dir_structure.get_scan_file:
\* <output-dir>/<target>.bscan.d/services/<scan_name>
get_scan_file(target, scan_name) ==
    OutputDir \o <<"/">> \o target \o <<".", "b", "s", "c", "a", "n", ".", "d">>
        \o <<"/">> \o <<"s", "e", "r", "v", "i", "c", "e", "s">> \o <<"/">> \o scan_name

\* io_files.file_exists
file_exists(files, path) == path \in files

\* a templater that takes <name>.<scan> whether or not it exists
probe_fout_unprobed(ds, scan_name, files, fout, i) == fout

\* a loop that gives up after <name>.0.<scan>
probe_fout_once(ds, scan_name, files, fout, i) ==
    IF file_exists(files, fout)
    THEN get_scan_file(ds.target,
                       ds.name \o <<".">> \o str_int(i) \o <<".">> \o scan_name)
    ELSE fout

\* the loop of models.py 68-73: the first of <name>.<scan>,
\* <name>.0.<scan>, <name>.1.<scan>, ... that is no existing file
RECURSIVE probe_fout(_, _, _, _, _)
probe_fout(ds, scan_name, files, fout, i) ==
    IF file_exists(files, fout)
    THEN probe_fout(ds, scan_name, files,
                    get_scan_file(ds.target,
                                  ds.name \o <<".">> \o str_int(i) \o <<".">>
                                      \o scan_name),
                    i + 1)
    ELSE fout

\* a templater that fills a per-port template for the first port only
fill_template_first_port(ds, scan_name, template, files) ==
    <<replace(replace(template, TARGET, ds.target),
              PORT, str_int(ds.ports[1]))>>

\* DetectedService._fill_template(scan_name, cmd)
fill_template(ds, scan_name, template, files) ==
    LET cmd == replace(replace(replace(replace(template,
                   TARGET, ds.target),
                   WORDLIST, WebWordList),
                   USERLIST, BruteUserList),
                   PASSLIST, BrutePassList)
    IN  IF contains(cmd, PORTS)
        THEN LET fout == get_scan_file(ds.target,
                             ds.name \o <<".">>
                                 \o str_join(<<".">>, port_strs(ds))
                                 \o <<".">> \o scan_name)
             IN  <<replace(replace(cmd, PORTS, port_str(ds)), FOUT, fout)>>
        ELSE IF contains(cmd, PORT)
        THEN [i \in DOMAIN ds.ports |->
                 LET port == str_int(ds.ports[i])
                     fout == get_scan_file(ds.target,
                                 ds.name \o <<".">> \o port \o <<".">>
                                     \o scan_name)
                 IN  replace(replace(cmd, PORT, port), FOUT, fout)]
        ELSE LET fout == probe_fout(ds, scan_name, files,
                             get_scan_file(ds.target,
                                 ds.name \o <<".">> \o scan_name), 0)
             IN  <<replace(cmd, FOUT, fout)>>

\* DetectedService.build_scans: the commands of self.scans.items(), from
\* the k-th entry on
RECURSIVE build_scans_from(_, _, _)
build_scans_from(ds, k, files) ==
    IF k > Len(ds.scans)
    THEN << >>
    ELSE fill_template(ds, ds.scans[k].scan, ds.scans[k].cmd, files)
             \o build_scans_from(ds, k + 1, files)

build_scans(ds, files) == build_scans_from(ds, 1, files)

\* DetectedService.build_recommendations: recommendation i is templated
\* under the scan name 'rec' + str(i), i counting from 0
RECURSIVE build_recommendations_from(_, _, _)
build_recommendations_from(ds, k, files) ==
    IF k > Len(ds.recommendations)
    THEN << >>
    ELSE fill_template(ds, <<"r", "e", "c">> \o str_int(k - 1),
                       ds.recommendations[k], files)
             \o build_recommendations_from(ds, k + 1, files)

build_recommendations(ds, files) == build_recommendations_from(ds, 1, files)

(***************************************************************************)
(* The templater is applied to any DetectedService over small templates.   *)
(***************************************************************************)
RECURSIVE Flatten(_)
Flatten(parts) ==
    IF parts = << >> THEN << >> ELSE parts[1] \o Flatten(Tail(parts))

\* the templates: at most MaxTokens pieces, each a template parameter or a
\* word
Templates ==
    {Flatten(ts) : ts \in SeqUpTo(Placeholders \cup {ToolWord}, MaxTokens)}

\* a template of the shipped configuration's shape, with per-port output
PerPortTemplate == ToolWord \o TARGET \o PORT \o FOUT

\* the port lists that join_services builds
PortLists ==
    {sorted_ports(M) :
        M \in {S \in SUBSET ParsedService :
                   S # {} /\ Cardinality(S) <= MaxServices}}

ScanName == <<"n", "m", "a", "p">>
ScanName2 == <<"n", "i", "k", "t", "o">>
ProtocolName == <<"h", "t", "t", "p">>
TargetName == <<"h", "1">>

\* the DetectedServices: one template, as scan and as recommendation, alone
\* or, if it is a single piece, followed by a second scan and recommendation
DetectedServices ==
    {[name |-> ProtocolName, target |-> TargetName, ports |-> ports,
      scans |-> <<[scan |-> ScanName, cmd |-> t]>> \o more_scans,
      recommendations |-> <<t>> \o more_recs] :
        ports \in PortLists, t \in Templates,
        more_scans \in {<< >>},
        more_recs \in {<< >>}}
     \cup
    {[name |-> ProtocolName, target |-> TargetName, ports |-> ports,
      scans |-> <<[scan |-> ScanName, cmd |-> t],
                  [scan |-> ScanName2, cmd |-> PerPortTemplate]>>,
      recommendations |-> <<t, PerPortTemplate>>] :
        ports \in PortLists, t \in Placeholders \cup {ToolWord}}

\* the output files of port-less scans that may exist beforehand: none,
\* that of a first scan, or those of a first and a second scan
ProbedFiles(ds) ==
    {{},
     {get_scan_file(ds.target, ds.name \o <<".">> \o ScanName)},
     {get_scan_file(ds.target, ds.name \o <<".">> \o ScanName),
      get_scan_file(ds.target,
                    ds.name \o <<".">> \o str_int(0) \o <<".">> \o ScanName)}}

InitTemplate ==
    /\ MainIdle
    /\ JoinIdle
    /\ PipelineIdle
    /\ FnIdle
    /\ tmpl_ds \in DetectedServices
    /\ tmpl_files \in ProbedFiles(tmpl_ds)
    /\ tmpl_scans = << >>
    /\ tmpl_recs = << >>

\* js.build_scans()
BuildScans ==
    /\ tmpl_ds # << >>
    /\ tmpl_scans = << >>
    /\ tmpl_scans' = build_scans(tmpl_ds, tmpl_files)
    /\ UNCHANGED <<mainVars, joinVars, plVars, fnVars, tmpl_ds, tmpl_files, tmpl_recs>>

\* js.build_recommendations(), which scan_target calls after it has built
\* the scans of the service (scans.py 65 and 108)
BuildRecommendations ==
    /\ tmpl_ds # << >>
    /\ tmpl_scans # << >>
    /\ tmpl_recs = << >>
    /\ tmpl_recs' = build_recommendations(tmpl_ds, tmpl_files)
    /\ UNCHANGED <<mainVars, joinVars, plVars, fnVars, tmpl_ds, tmpl_files, tmpl_scans>>

NextTemplate ==
    \/ BuildScans
    \/ BuildRecommendations

SpecTemplate == InitTemplate /\ [][NextTemplate]_vars

\* the commands returned so far
EmittedCommands ==
    {tmpl_scans[i] : i \in DOMAIN tmpl_scans}
        \cup {tmpl_recs[i] : i \in DOMAIN tmpl_recs}

\* C10: no command returned by build_scans() or build_recommendations()
\* contains any of the literals <target>, <port>, <ports>, <fout>,
\* <wordlist>, <userlist>, <passlist>.
C10_SubstitutionIsTotal ==
    \A cmd \in EmittedCommands :
        \A tag \in Placeholders : ~contains(cmd, tag)

\* a template that is filled once for every port: it has <port> and no
\* <ports>
IsPerPort(template) == contains(template, PORT) /\ ~contains(template, PORTS)

\* the number of commands a template is to give for a DetectedService
CommandCount(ds, template) ==
    IF IsPerPort(template) THEN Len(ds.ports) ELSE 1

\* the number of commands the templates of a list are to give together
RECURSIVE TotalCount(_, _)
TotalCount(ds, templates) ==
    IF templates = << >>
    THEN 0
    ELSE CommandCount(ds, Head(templates)) + TotalCount(ds, Tail(templates))

\* C11: a template with <port> and without <ports> gives one command per
\* port of the DetectedService, in port order; a template with <ports>, or
\* with neither, gives exactly one command.
C11_CommandCardinality ==
    /\ tmpl_scans # << >> =>
          /\ Len(tmpl_scans) =
                 TotalCount(tmpl_ds, [k \in DOMAIN tmpl_ds.scans |->
                                         tmpl_ds.scans[k].cmd])
          /\ IsPerPort(tmpl_ds.scans[1].cmd) =>
                 \A i \in DOMAIN tmpl_ds.ports :
                     tmpl_scans[i] =
                         build_scans([tmpl_ds EXCEPT !.ports =
                                         <<tmpl_ds.ports[i]>>],
                                     tmpl_files)[1]
    /\ tmpl_recs # << >> =>
          Len(tmpl_recs) = TotalCount(tmpl_ds, tmpl_ds.recommendations)

\* build_scans() has filled a per-port template for several ports
C11_Witness ==
    /\ tmpl_scans # << >>
    /\ IsPerPort(tmpl_ds.scans[1].cmd)
    /\ Len(tmpl_ds.ports) >= 2

(***************************************************************************)
(* scans.py: scan_target followed through its data for one target: the     *)
(* port scans' results, both joins, the commands built from them, the      *)
(* output files the service scans leave behind and recommendations.txt.    *)
(* The store is that of runtime.init_db and the target has a running set,  *)
(* so that the coroutine gets past its quick scan.  Its steps are its      *)
(* stretches between two awaits that suspend it.                           *)
(***************************************************************************)
\* the largest port a port scan of the pipeline reports
MaxPlPort == 2
\* the most services one port scan reports
MaxFound == 2

\* the names the joins handle, as the strings the templater splices
Chars ==
    [http |-> <<"h", "t", "t", "p">>, ssh |-> <<"s", "s", "h">>,
     smb |-> <<"s", "m", "b">>, ftp |-> <<"f", "t", "p">>,
     h1 |-> <<"h", "1">>, h2 |-> <<"h", "2">>]
chars(s) == Chars[s]

\* a DetectedService of join_services as the templater reads it
as_chars(js) == [js EXCEPT !.name = chars(js.name), !.target = chars(js.target)]

PortlessTemplate == ToolWord \o TARGET \o FOUT
RecTemplate == ToolWord \o TARGET \o PORTS

\* db['services']: a port-less scan for http, a per-port scan for ssh,
\* each protocol with or without recommendations
PipelineConfigs ==
    {<<[names |-> {"http", "http-proxy"},
        scans |-> <<[scan |-> ScanName, cmd |-> PortlessTemplate]>>,
        recommendations |-> r1],
       [names |-> {"ssh"},
        scans |-> <<[scan |-> ScanName2, cmd |-> PerPortTemplate]>>,
        recommendations |-> r2]>> :
        r1 \in {<< >>, <<RecTemplate>>},
        r2 \in {<< >>, <<RecTemplate, PerPortTemplate>>}}

\* what a port scan can report
PlServices == [name : {"http", "ssh"}, port : 1..MaxPlPort]
ScanResults == {S \in SUBSET PlServices : Cardinality(S) <= MaxFound}

PipelineNamespaces ==
    [max_concurrency : {1},
     cmd_print_width : {80},
     hard : {FALSE},
     quick_only : BOOLEAN,
     quick_scan : {"unicornscan"},
     status_interval : {0},
     ping_sweep : {FALSE},
     udp : BOOLEAN]

\* the target scan_target is called with
PlTarget == "h1"

\* scans.py 65-66 and 84: [js.build_scans() for js in joined], chained
RECURSIVE scan_cmds(_, _)
scan_cmds(joined, files) ==
    IF joined = << >>
    THEN << >>
    ELSE build_scans(as_chars(Head(joined)), files)
             \o scan_cmds(Tail(joined), files)

\* the output paths _fill_template gives the port-less scans of joined
portless_fouts(joined, files) ==
    UNION {{[name |-> joined[j].name, scan |-> joined[j].scans[k].scan,
             fout |-> probe_fout(as_chars(joined[j]), joined[j].scans[k].scan,
                                 files,
                                 get_scan_file(chars(joined[j].target),
                                     chars(joined[j].name) \o <<".">>
                                         \o joined[j].scans[k].scan), 0)] :
               k \in {n \in DOMAIN joined[j].scans :
                         /\ ~contains(joined[j].scans[n].cmd, PORTS)
                         /\ ~contains(joined[j].scans[n].cmd, PORT)}} :
           j \in DOMAIN joined}

\* scans.py 69: do_thorough
do_thorough_always(d) == TRUE
do_thorough(d) == ~get_db_value(d, "quick-only")

\* scans.py 77: the diff of the thorough scan against the quick scan
new_services_undiffed(ts, qs) == ts
new_services(ts, qs) == ts \ qs

\* the proc_spawn calls of a list of scans up to their adds to the
\* running set: the exception of the first that raises, if any
RECURSIVE add_all(_, _, _)
add_all(sp, t, cmds) ==
    IF cmds = << >>
    THEN [exc |-> "none", sp |-> sp]
    ELSE LET r == add_running_subproc(sp, t, Head(cmds))
         IN  IF r.exc # "none" THEN r ELSE add_all(r.sp, t, Tail(cmds))

\* the same calls from their subprocess' exit on
RECURSIVE remove_all(_, _, _)
remove_all(sp, t, cmds) ==
    IF cmds = << >>
    THEN [exc |-> "none", sp |-> sp]
    ELSE LET r == remove_running_subproc(sp, t, Head(cmds))
         IN  IF r.exc # "none" THEN r ELSE remove_all(r.sp, t, Tail(cmds))

\* the subprocess records of one gather
spawn_records(kind, fanout, cmds) ==
    [i \in DOMAIN cmds |-> [kind |-> kind, fanout |-> fanout, cmd |-> cmds[i]]]

\* the commands of the subprocesses spawned by fanout f and still awaited
awaited_cmds(spawned, f) ==
    LET sel == SelectSeq(spawned, LAMBDA r : r.fanout = f)
    IN  [i \in DOMAIN sel |-> sel[i].cmd]

\* what a gathered scan returns: run_service_s returns None, run_nmap_ts
\* the set of services it parsed
NoneResult == [is_none |-> TRUE, services |-> {}]
scan_result(kind, ts) ==
    IF kind = "thorough" THEN [is_none |-> FALSE, services |-> ts]
    ELSE NoneResult

\* n gathered scans end in the order of the argument list
ArgumentOrder(n) == [j \in 1..n |-> j]

\* the orders in which n gathered scans may end: the rotations of the
\* argument order
CompletionOrders(n) ==
    {[j \in 1..n |-> ((j + k - 1) % n) + 1] : k \in 0..(n - 1)}

\* asyncio.gather puts each result at the place of its awaitable as the
\* awaitables end
RECURSIVE gather_fill(_, _, _)
gather_fill(res, returned, order) ==
    IF order = << >>
    THEN res
    ELSE gather_fill([res EXCEPT ![Head(order)] = returned[Head(order)]],
                     returned, Tail(order))

\* a gather that lists the results as they come in
gather_as_completed(returned, order) ==
    [k \in DOMAIN order |-> returned[order[k]]]

\* res = await asyncio.gather(*scans), the scans ending in the given order
gather(returned, order) ==
    gather_fill([i \in DOMAIN returned |-> NoneResult], returned, order)

HeaderHead ==
    <<"T", "h", "e", " ", "f", "o", "l", "l", "o", "w", "i", "n", "g", " ",
      "c", "o", "m", "m", "a", "n", "d", "s", " ", "a", "r", "e", " ", "r",
      "e", "c", "o", "m", "m", "e", "n", "d", "e", "d", " ", "f", "o", "r",
      " ", "s", "e", "r", "v", "i", "c", "e", " ">>
HeaderMid ==
    <<" ", "r", "u", "n", "n", "i", "n", "g", " ", "o", "n", " ", "p", "o",
      "r", "t", "(", "s", ")", " ">>

\* scans.py 103-105: section_header
section_header(js) ==
    HeaderHead \o chars(js.name) \o HeaderMid \o port_str(js) \o <<":">>

\* scans.py 99-100: `if not js.recommendations: continue`
skip_section_never(js) == FALSE
skip_section(js) == js.recommendations = << >>

\* scans.py 98-110: what the loop appends to recommendations.txt
RECURSIVE write_recommendations(_, _)
write_recommendations(joined, files) ==
    IF joined = << >>
    THEN << >>
    ELSE LET js == Head(joined)
             section == <<section_header(js),
                          [i \in 1..Len(section_header(js)) |-> "-"]>>
                            \o build_recommendations(as_chars(js), files)
                            \o << << >> >>
         IN  (IF skip_section(js) THEN << >> ELSE section)
                 \o write_recommendations(Tail(joined), files)

InitPipeline ==
    /\ JoinIdle
    /\ TemplateIdle
    /\ FnIdle
    /\ opts \in PipelineNamespaces
    /\ db = init_db(<< >>, opts).db
    /\ main_pc = "idle"
    /\ main_result = "none"
    /\ cand_idx = 1
    /\ targets = <<PlTarget>>
    /\ dirs = {}
    /\ subprocesses = [t \in {PlTarget} |-> {}]
    /\ task_pc = NoTasks
    /\ next_start = 1
    /\ poller_pc = "absent"
    /\ procs = {}
    /\ first_exc = "none"
    /\ pl_pc = "new"
    /\ pl_defined \in PipelineConfigs
    /\ pl_qs = {}
    /\ pl_ts = {}
    /\ pl_qs_joined = << >>
    /\ pl_ts_joined = << >>
    /\ pl_spawned = << >>
    /\ pl_fouts1 = {}
    /\ pl_fouts2 = {}
    /\ pl_built_on = {}
    /\ pl_files = {}
    /\ pl_recs = << >>
    /\ pl_gather = [returned |-> << >>, done |-> << >>, res |-> << >>]

\* what a pipeline step leaves alone
PlFrame ==
    UNCHANGED <<opts, main_pc, main_result, cand_idx, targets, dirs, db,
                task_pc, next_start, poller_pc, procs, first_exc,
                joinVars, tmplVars, fnVars, pl_defined>>

\* an exception leaves scan_target
PlFail(sp) ==
    /\ pl_pc' = "failed"
    /\ subprocesses' = sp

\* scans.py 91-115 given the running set sp and the files on disk: the
\* UDP notice, the recommendations file and the end of the tracking
PlFinish(sp, files, joined) ==
    LET r == remove_subproc_set(sp, PlTarget)
    IN  /\ pl_recs' = pl_recs \o write_recommendations(joined, files)
        /\ subprocesses' = r.sp
        /\ pl_pc' = IF r.exc = "none" THEN "retired" ELSE "failed"

\* scans.py 55-58 up to the quick scan's proc_spawn
PlQuickScan ==
    /\ pl_pc = "new"
    /\ LET cmd == UNIC_QUICK_SCAN(PlTarget)
           r == add_all(subprocesses, PlTarget, <<cmd>>)
       IN  /\ pl_spawned' = pl_spawned \o spawn_records("quick", 0, <<cmd>>)
           /\ IF r.exc = "none"
              THEN pl_pc' = "quick" /\ subprocesses' = r.sp
              ELSE PlFail(r.sp)
    /\ UNCHANGED <<pl_qs, pl_ts, pl_qs_joined, pl_ts_joined, pl_fouts1,
                   pl_fouts2, pl_built_on, pl_files, pl_recs, pl_gather>>
    /\ PlFrame

\* scans.py 58-73: the quick scan has exited and reported qs; the first
\* join, the first fanout and the thorough scan
PlQuickDone(qs) ==
    /\ pl_pc = "quick"
    /\ LET r0 == remove_all(subprocesses, PlTarget, awaited_cmds(pl_spawned, 0))
           joined == join_services(pl_defined, PlTarget, qs).joined
           cmds == scan_cmds(joined, pl_files)
           recs == spawn_records("service", 1, cmds)
                       \o (IF do_thorough(db)
                           THEN spawn_records("thorough", 1,
                                              <<NMAP_TCP_SCAN(PlTarget)>>)
                           ELSE << >>)
           r1 == add_all(r0.sp, PlTarget, [i \in DOMAIN recs |-> recs[i].cmd])
       IN  /\ pl_qs' = qs
           /\ IF r0.exc # "none"
              THEN /\ PlFail(r0.sp)
                   /\ UNCHANGED <<pl_qs_joined, pl_spawned, pl_fouts1, pl_recs>>
              ELSE /\ pl_qs_joined' = joined
                   /\ pl_spawned' = pl_spawned \o recs
                   /\ pl_fouts1' = portless_fouts(joined, pl_files)
                   /\ IF recs = << >>
                      THEN PlFinish(r0.sp, pl_files, joined)
                      ELSE /\ pl_recs' = pl_recs
                           /\ IF r1.exc = "none"
                              THEN pl_pc' = "scans" /\ subprocesses' = r1.sp
                              ELSE PlFail(r1.sp)
    /\ UNCHANGED <<pl_ts, pl_ts_joined, pl_fouts2, pl_built_on, pl_files,
                   pl_gather>>
    /\ PlFrame

\* scans.py 73-89: the first fanout and the thorough scan have exited, the
\* service scans having created the files of created and the thorough
\* scan having reported ts; the diff, the second join and the second fanout
PlScansDone(ts, created, order) ==
    /\ pl_pc = "scans"
    /\ LET r0 == remove_all(subprocesses, PlTarget, awaited_cmds(pl_spawned, 1))
           files == pl_files \cup created
           scans == SelectSeq(pl_spawned, LAMBDA r : r.fanout = 1)
           returned == [i \in DOMAIN scans |-> scan_result(scans[i].kind, ts)]
           res == gather(returned, order)
           last == IF do_thorough(db) THEN res[Len(res)]
                   ELSE [is_none |-> FALSE, services |-> {}]
           ts_parsed == last.services
           new == new_services(ts_parsed, pl_qs)
           joined == IF new # {}
                     THEN join_services(pl_defined, PlTarget, new).joined
                     ELSE << >>
           cmds == scan_cmds(joined, files)
           recs == spawn_records("service", 2, cmds)
           r1 == add_all(r0.sp, PlTarget, cmds)
       IN  /\ pl_files' = files
           /\ IF r0.exc # "none"
              THEN /\ PlFail(r0.sp)
                   /\ UNCHANGED <<pl_ts, pl_ts_joined, pl_spawned, pl_fouts2,
                                  pl_built_on, pl_recs, pl_gather>>
              ELSE IF last.is_none
              THEN \* None - qs_parsed_services: TypeError
                   /\ PlFail(r0.sp)
                   /\ pl_gather' = [returned |-> returned, done |-> order,
                                    res |-> res]
                   /\ UNCHANGED <<pl_ts, pl_ts_joined, pl_spawned, pl_fouts2,
                                  pl_built_on, pl_recs>>
              ELSE /\ pl_ts' = ts_parsed
                   /\ pl_gather' = [returned |-> returned, done |-> order,
                                    res |-> res]
                   /\ pl_ts_joined' = joined
                   /\ pl_spawned' = pl_spawned \o recs
                   /\ pl_fouts2' = portless_fouts(joined, files)
                   /\ pl_built_on' = files
                   /\ IF recs = << >>
                      THEN PlFinish(r0.sp, files, pl_qs_joined \o joined)
                      ELSE /\ pl_recs' = pl_recs
                           /\ IF r1.exc = "none"
                              THEN pl_pc' = "new-scans" /\ subprocesses' = r1.sp
                              ELSE PlFail(r1.sp)
    /\ UNCHANGED <<pl_qs, pl_qs_joined, pl_fouts1>>
    /\ PlFrame

\* scans.py 86 and 91-115: the second fanout has exited
PlNewScansDone(created) ==
    /\ pl_pc = "new-scans"
    /\ LET r0 == remove_all(subprocesses, PlTarget, awaited_cmds(pl_spawned, 2))
           files == pl_files \cup created
       IN  /\ pl_files' = files
           /\ IF r0.exc # "none"
              THEN PlFail(r0.sp) /\ pl_recs' = pl_recs
              ELSE PlFinish(r0.sp, files, pl_qs_joined \o pl_ts_joined)
    /\ UNCHANGED <<pl_qs, pl_ts, pl_qs_joined, pl_ts_joined, pl_spawned,
                   pl_fouts1, pl_fouts2, pl_built_on, pl_gather>>
    /\ PlFrame

\* the paths of a set of output path records
Fouts(rs) == {r.fout : r \in rs}

NextPipeline ==
    \/ PlQuickScan
    \/ \E qs \in ScanResults : PlQuickDone(qs)
    \/ \E ts \in ScanResults, created \in SUBSET Fouts(pl_fouts1) :
           PlScansDone(ts, created,
                       ArgumentOrder(Len(awaited_cmds(pl_spawned, 1))))
    \/ \E created \in SUBSET Fouts(pl_fouts2) : PlNewScansDone(created)

SpecPipeline == InitPipeline /\ [][NextPipeline]_vars

\* the pipeline with the gathered scans ending in any of the orders of
\* CompletionOrders, the scans leaving no file behind
NextCompletion ==
    \/ PlQuickScan
    \/ \E qs \in ScanResults : PlQuickDone(qs)
    \/ \E ts \in ScanResults,
          order \in CompletionOrders(Len(awaited_cmds(pl_spawned, 1))) :
           PlScansDone(ts, {}, order)
    \/ PlNewScansDone({})

SpecCompletion == InitPipeline /\ [][NextCompletion]_vars

(***************************************************************************)
(* Claims about the pipeline of one target.                                *)
(***************************************************************************)
\* a port-less scan of fanout 1 and one of fanout 2 that stem from the
\* same protocol and the same scan template
SameScan(a, b) == a.name = b.name /\ a.scan = b.scan

\* C12, as stated: when a protocol is detected in the quick-scan fanout and
\* in the thorough-scan fanout and its scan template has neither <port> nor
\* <ports>, the <fout> path of the second fanout's command differs from
\* that of the first fanout's command.
C12_FoutPathsDiffer ==
    \A a \in pl_fouts1, b \in pl_fouts2 : SameScan(a, b) => a.fout # b.fout

\* C12, amended: the two paths differ provided the first fanout's scan has
\* left its output file behind by the time the second fanout's command is
\* built; the templater tells a taken path by the file that exists there.
C12_FoutPathsDifferWhenFileExists ==
    \A a \in pl_fouts1, b \in pl_fouts2 :
        SameScan(a, b) /\ a.fout \in pl_built_on => a.fout # b.fout

C12_Witness ==
    \E a \in pl_fouts1, b \in pl_fouts2 :
        SameScan(a, b) /\ a.fout \in pl_built_on /\ a.fout # b.fout

\* the rule of db['services'] that a DetectedService stems from
RuleOf(js) ==
    pl_defined[CHOOSE k \in DOMAIN pl_defined : ProtocolKeys[k] = js.name]

\* the services of found that the rule of js names
NamedBy(js, found) == {s \in found : s.name \in RuleOf(js).names}

\* C13: the second fanout covers exactly the newly discovered services:
\* its DetectedServices are joined from New = Ts \ Qs only, every command
\* it spawns is built from them, no service of Qs contributes a port to
\* them, and with New empty no second-fanout subprocess is spawned.
C13_SecondFanoutCoversNewOnly ==
    LET New == pl_ts \ pl_qs
    IN  /\ \A j \in DOMAIN pl_ts_joined :
               /\ NamedBy(pl_ts_joined[j], New) # {}
               /\ Range(pl_ts_joined[j].ports)
                      = {s.port : s \in NamedBy(pl_ts_joined[j], New)}
               /\ Len(pl_ts_joined[j].ports)
                      = Cardinality(NamedBy(pl_ts_joined[j], New))
        /\ pl_pc \in {"new-scans", "retired"} =>
               \A s \in New :
                   \E j \in DOMAIN pl_ts_joined :
                       s \in NamedBy(pl_ts_joined[j], New)
        /\ awaited_cmds(pl_spawned, 2) = scan_cmds(pl_ts_joined, pl_built_on)
        /\ New = {} => awaited_cmds(pl_spawned, 2) = << >>

C13_Witness ==
    /\ pl_qs \cap pl_ts # {}
    /\ pl_ts \ pl_qs # {}
    /\ awaited_cmds(pl_spawned, 2) # << >>

\* the subprocess records of one kind
SpawnedOfKind(kind) == SelectSeq(pl_spawned, LAMBDA r : r.kind = kind)

\* the DetectedServices of a list that carry recommendations
WithRecommendations(joined) ==
    SelectSeq(joined, LAMBDA js : js.recommendations # << >>)

\* C14: with quick-only set no thorough-scan subprocess is ever spawned, Ts
\* is empty, there is no second fanout, and the pipeline goes from its first
\* fanout straight to its end, where it has written the recommendations of
\* the quick-scan detections and has retired.
C14_QuickOnlySkipsThorough ==
    get_db_value(db, "quick-only") =>
        /\ SpawnedOfKind("thorough") = << >>
        /\ pl_ts = {}
        /\ pl_ts_joined = << >>
        /\ awaited_cmds(pl_spawned, 2) = << >>
        /\ pl_pc \in {"new", "quick", "scans", "retired"}
        /\ pl_pc = "retired" =>
               /\ PlTarget \notin DOMAIN subprocesses
               /\ pl_recs # << >> <=> WithRecommendations(pl_qs_joined) # << >>
        /\ pl_pc # "retired" => pl_recs = << >>

C14_Witness ==
    /\ get_db_value(db, "quick-only")
    /\ pl_pc = "retired"
    /\ awaited_cmds(pl_spawned, 1) # << >>
    /\ pl_recs # << >>

\* the lines of one section: header, rule, one per recommendation command,
\* blank line
SectionLen(js) == 3 + TotalCount(js, js.recommendations)

\* the line of recommendations.txt at which the j-th section starts
RECURSIVE SectionStart(_, _)
SectionStart(secs, j) ==
    IF j = 1 THEN 1 ELSE SectionStart(secs, j - 1) + SectionLen(secs[j - 1])

\* C18: recommendations.txt of a target holds exactly one section for each
\* DetectedService of D_q followed by D_t that has recommendations, and
\* none for the others; a section is the header line naming the protocol
\* and its comma-joined ports, a rule of '-' as long as the header, the
\* templated recommendation lines in configuration order, and a blank line.
C18_RecommendationSections ==
    LET secs == WithRecommendations(pl_qs_joined \o pl_ts_joined)
    IN  /\ pl_pc # "retired" => pl_recs = << >>
        /\ pl_pc = "retired" =>
               /\ Len(pl_recs) = SectionStart(secs, Len(secs) + 1) - 1
               /\ \A j \in DOMAIN secs :
                      LET at == SectionStart(secs, j)
                          n == SectionLen(secs[j]) - 3
                          header == pl_recs[at]
                          rule == pl_recs[at + 1]
                      IN  /\ header = HeaderHead \o chars(secs[j].name)
                                          \o HeaderMid
                                          \o str_join(<<",">>, port_strs(secs[j]))
                                          \o <<":">>
                          /\ Len(rule) = Len(header)
                          /\ \A i \in DOMAIN rule : rule[i] = "-"
                          /\ SubSeq(pl_recs, at + 2, at + 1 + n)
                                 = build_recommendations(as_chars(secs[j]),
                                                         pl_files)
                          /\ pl_recs[at + 2 + n] = << >>

C18_Witness ==
    /\ pl_pc = "retired"
    /\ WithRecommendations(pl_qs_joined) # << >>
    /\ WithRecommendations(pl_ts_joined) # << >>
    /\ \E j \in DOMAIN pl_qs_joined : pl_qs_joined[j].recommendations = << >>
    /\ \E j \in DOMAIN pl_ts_joined : Len(pl_ts_joined[j].recommendations) = 2

\* C19: with the udp option enabled the pipeline spawns and awaits a UDP
\* port scan before the target retires; with it disabled no UDP scan
\* subprocess is spawned.
C19_UdpScanRunsWhenEnabled ==
    /\ get_db_value(db, "udp") /\ pl_pc = "retired" =>
           SpawnedOfKind("udp") # << >>
    /\ ~get_db_value(db, "udp") => SpawnedOfKind("udp") = << >>

\* C16: the pipeline does not wait for its second fanout before it writes
\* the recommendations: whenever it is suspended on the second fanout's
\* handles, the sections of its detections are in recommendations.txt.
C16_SecondFanoutNotAwaitedBeforeRecommendations ==
    pl_pc = "new-scans"
        /\ WithRecommendations(pl_qs_joined \o pl_ts_joined) # << >>
        => pl_recs # << >>

\* the scans handed to the gather of scans.py 73, in argument order
GatheredScans == SelectSeq(pl_spawned, LAMBDA r : r.fanout = 1)

\* C36: the set taken for Ts in the diff is the set that the thorough scan
\* of the target returned, in whatever order the gathered scans ended and
\* however many service scans were gathered with it; without a thorough
\* scan Ts is empty; the result of a service scan is never taken.
C36_TsIsThoroughResult ==
    /\ ~do_thorough(db) => pl_ts = {}
    /\ do_thorough(db) /\ pl_gather.res # << >> =>
           \E i \in DOMAIN GatheredScans :
               /\ GatheredScans[i].kind = "thorough"
               /\ \A j \in DOMAIN GatheredScans :
                      j # i => GatheredScans[j].kind = "service"
               /\ ~pl_gather.returned[i].is_none
               /\ pl_ts = pl_gather.returned[i].services
               /\ pl_pc \in {"new-scans", "retired"}
    /\ do_thorough(db) /\ pl_gather.res = << >> => pl_ts = {}

\* the thorough scan ended before a service scan gathered with it
C36_Witness ==
    /\ do_thorough(db)
    /\ Len(GatheredScans) >= 2
    /\ pl_gather.done # << >>
    /\ GatheredScans[pl_gather.done[1]].kind = "thorough"
    /\ pl_ts # {}
    /\ pl_pc = "new-scans"

(***************************************************************************)
(* Claims about the subprocesses of the gathered pipelines.                *)
(***************************************************************************)
\* the subprocesses of pipeline i that run command cmd
ProcsOf(i, cmd) == {p \in procs : p.task = i /\ p.cmd = cmd}

\* the service scans of the first fanout of pipeline i
Fanout1Procs(i) ==
    UNION {ProcsOf(i, ServiceScan(targets[i], n)) : n \in 1..MaxScans}

\* the service scans of the second fanout of pipeline i
Fanout2Procs(i) ==
    UNION {ProcsOf(i, ServiceScan(targets[i], n)) :
               n \in (MaxScans + 1)..(2 * MaxScans)}

\* C15: the first fanout's service scans run concurrently with the thorough
\* scan of their target: they are launched once the quick scan has ended,
\* and unless quick-only is set the thorough scan is started with them, so
\* that it never waits for one of them to exit.
C15_Fanout1ConcurrentWithThorough ==
    \A i \in DOMAIN targets :
        Fanout1Procs(i) # {} =>
            /\ \A q \in ProcsOf(i, UNIC_QUICK_SCAN(targets[i])) : q.pc = "reaped"
            /\ ~get_db_value(db, "quick-only") =>
                   ProcsOf(i, NMAP_TCP_SCAN(targets[i])) # {}

C15_Witness ==
    \E i \in DOMAIN targets :
        /\ Fanout1Procs(i) \cap LiveProcs # {}
        /\ ProcsOf(i, NMAP_TCP_SCAN(targets[i])) \cap LiveProcs # {}

\* C17: retirement is the last step of a pipeline: in the step that takes
\* a target out of the running-set store, its quick scan, its thorough scan
\* and the service scans of both fanouts have exited and their proc_spawn
\* calls have ended, and the target's running set is empty.
C17_RetirementIsLast ==
    [][\A i \in DOMAIN targets :
           task_pc[i] # "retired" /\ task_pc'[i] = "retired" =>
               /\ \A p \in procs :
                      p.task = i => p.os = "exited" /\ p.pc = "reaped"
               /\ subprocesses[targets[i]] = {}
               /\ targets[i] \notin DOMAIN subprocesses']_vars

C17_Witness ==
    \E i \in DOMAIN targets :
        /\ task_pc[i] = "retired"
        /\ ProcsOf(i, UNIC_QUICK_SCAN(targets[i])) # {}
        /\ ProcsOf(i, NMAP_TCP_SCAN(targets[i])) # {}
        /\ Fanout1Procs(i) # {}
        /\ Fanout2Procs(i) # {}

\* the scans that scan_target gathers at scans.py 73: the first fanout and
\* the thorough scan
GatheredFirst(i) == Fanout1Procs(i) \cup ProcsOf(i, NMAP_TCP_SCAN(targets[i]))

\* C35: the two fanouts of a target never overlap: the diff is taken and a
\* scan of the second fanout is spawned only after the thorough scan and
\* every scan of the first fanout have exited and their proc_spawn calls
\* have ended.
C35_FanoutsNeverOverlap ==
    \A i \in DOMAIN targets :
        (task_pc[i] \in {"new-scans", "retired"} \/ Fanout2Procs(i) # {})
            => /\ \A p \in GatheredFirst(i) :
                      p.os = "exited" /\ p.pc = "reaped"
               /\ ~get_db_value(db, "quick-only") =>
                      ProcsOf(i, NMAP_TCP_SCAN(targets[i])) # {}

C35_Witness ==
    \E i \in DOMAIN targets :
        /\ task_pc[i] = "new-scans"
        /\ Fanout2Procs(i) \cap LiveProcs # {}
        /\ Fanout1Procs(i) # {}
        /\ ProcsOf(i, NMAP_TCP_SCAN(targets[i])) # {}

KeysRead ==
    {"status-interval", "quick-only", "udp", "quick-scan", "services",
     "patterns", "cmd-print-length", "web-word-list", "brute-user-list",
     "brute-pass-list", "output-dir", "hard", "verbose-status"}

\* C38: once init_config has completed successfully, every key that is
\* read from the store during the run has been written, so that
\* get_db_value never raises its unknown-key BscanInternalError.
C38_EveryKeyReadIsWritten ==
    main_pc \in {"targets", "gather"} =>
        \A key \in KeysRead : has_db_value(db, key)

(***************************************************************************)
(* io_console.py: shortened_cmd, applied to any command and length.        *)
(***************************************************************************)
\* the longest command
MaxCmdLen == 5
\* the largest length a command is shortened to
MaxLength == 8

\* the backquote character, which is none of a command's characters
BackQuote == "backquote"

\* the characters of a command
CmdChars == {"a", "b"}
Commands == SeqUpTo(CmdChars, MaxCmdLen)

\* Python's s[:n]
slice_to(s, n) ==
    LET stop == IF n < 0
                THEN (IF Len(s) + n < 0 THEN 0 ELSE Len(s) + n)
                ELSE (IF n > Len(s) THEN Len(s) ELSE n)
    IN  SubSeq(s, 1, stop)

\* a prefix that leaves one character too few for the ellipsis
kept_prefix_too_long(length) == length - 4

\* io_console.py 35: the length of the prefix kept, length - 5
kept_prefix(length) == length - 5

\* io_console.shortened_cmd(cmd, length)
shortened_cmd(cmd, length) ==
    IF Len(cmd) + 2 <= length
    THEN <<BackQuote>> \o cmd \o <<BackQuote>>
    ELSE <<BackQuote>> \o slice_to(cmd, kept_prefix(length))
             \o <<".", ".", ".", BackQuote>>

InitShorten ==
    /\ MainIdle
    /\ JoinIdle
    /\ TemplateIdle
    /\ PipelineIdle
    /\ PollerIdle
    /\ StreamIdle
    /\ LockIdle
    /\ GatherIdle
    /\ sc_cmd \in Commands
    /\ sc_length \in 0..MaxLength
    /\ sc_out = << >>

\* a call of shortened_cmd
Shorten ==
    /\ sc_out = << >>
    /\ sc_out' = shortened_cmd(sc_cmd, sc_length)
    /\ UNCHANGED <<mainVars, joinVars, tmplVars, plVars, poVars, stVars,
                   lkVars, gtVars, sc_cmd, sc_length>>

NextShorten == Shorten

SpecShorten == InitShorten /\ [][NextShorten]_vars

\* C30: for every command and every print width w >= 5, shortened_cmd
\* returns at most w characters: the whole command in backquotes when that
\* fits within w, otherwise a leading prefix of the command followed by
\* '...', in backquotes, of length exactly w.
C30_ShortenedWithinWidth ==
    (sc_out # << >> /\ sc_length >= 5) =>
        /\ Len(sc_out) <= sc_length
        /\ IF Len(sc_cmd) + 2 <= sc_length
           THEN sc_out = <<BackQuote>> \o sc_cmd \o <<BackQuote>>
           ELSE /\ Len(sc_out) = sc_length
                /\ sc_out[1] = BackQuote
                /\ \A k \in 1..(sc_length - 5) : sc_out[k + 1] = sc_cmd[k]
                /\ SubSeq(sc_out, sc_length - 3, sc_length)
                       = <<".", ".", ".", BackQuote>>

C30_Witness ==
    /\ sc_out # << >>
    /\ sc_length >= 6
    /\ Len(sc_cmd) + 2 > sc_length

(***************************************************************************)
(* Claims about the status reporter beside running pipelines.              *)
(***************************************************************************)
\* C21: with a positive status interval the status reporter does not end
\* while a pipeline is still running: as long as a pipeline is in progress
\* the reporter has yet to start or is polling.
C21_ReporterOutlivesRunningPipelines ==
    \A i \in DOMAIN task_pc :
        (InProgress(i) /\ get_db_value(db, "status-interval") > 0)
            => poller_pc \in {"new", "polling"}

(***************************************************************************)
(* runtime.py: status_update_poller, followed wake by wake.  The store it  *)
(* reads and the running pipelines' changes to db['subprocesses'] are      *)
(* inputs.  time_elapsed is counted in poll periods of 0.5 s, so that      *)
(* time_elapsed >= interval reads po_elapsed >= 2 * interval.              *)
(***************************************************************************)
MaxInterval == 2
MaxWakes == 4
MaxRunning == 1

\* what --status-interval can have left in the store
Intervals == (0 - 1)..MaxInterval

\* the values db['subprocesses'] can take: a set of running commands for
\* each active target
SubprocDicts == UNION {[A -> SUBSET (1..MaxRunning)] : A \in SUBSET Hosts}

\* the store as status_update_poller finds it; has_len tells whether
\* 'cmd-print-length' was written
PollerStore(interval, verbose, has_len) ==
    LET d == write_db_value(write_db_value(<< >>,
                 "status-interval", interval),
                 "verbose-status", verbose)
    IN  IF has_len THEN write_db_value(d, "cmd-print-length", 80) ELSE d

RECURSIVE sum_len(_, _)
sum_len(sp, keys) ==
    IF keys = {} THEN 0
    ELSE LET k == CHOOSE x \in keys : TRUE
         IN  Cardinality(sp[k]) + sum_len(sp, keys \ {k})

get_runtime_stats(sp) ==
    RuntimeStats(Cardinality(DOMAIN sp), sum_len(sp, DOMAIN sp))

\* a status line that counts anew after the sleep
reported_stats_after_sleep(stats, sp) == get_runtime_stats(sp)

\* the counts in a status line: those of `stats`, which was assigned at
\* the head of the loop; sp is the store when the line is printed
reported_stats(stats, sp) == stats

\* the interval check at the head of status_update_poller
bad_interval_negative_only(interval) == interval < 0
bad_interval(interval) == interval <= 0

\* whether the accumulated time has reached the interval
interval_reached_late(elapsed, interval) == elapsed > 2 * interval
interval_reached(elapsed, interval) == elapsed >= 2 * interval

InitPoller ==
    /\ JoinIdle
    /\ TemplateIdle
    /\ PipelineIdle
    /\ ShortenIdle
    /\ StreamIdle
    /\ LockIdle
    /\ GatherIdle
    /\ opts = << >>
    /\ dirs = {}
    /\ main_pc = "idle"
    /\ main_result = "running"
    /\ cand_idx = 1
    /\ targets = << >>
    /\ task_pc = NoTasks
    /\ next_start = 0
    /\ poller_pc = "absent"
    /\ procs = {}
    /\ first_exc = "none"
    /\ \E interval \in Intervals, verbose \in BOOLEAN, has_len \in BOOLEAN :
           db = PollerStore(interval, verbose, has_len)
    /\ subprocesses \in SubprocDicts
    /\ po_by_main \in BOOLEAN
    /\ po_pc = IF po_by_main THEN "asked" ELSE "called"
    /\ po_exc = "none"
    /\ po_elapsed = 0
    /\ po_stats = RuntimeStats(0, 0)
    /\ po_wakes = 0
    /\ po_lines = << >>

PollerFrame ==
    UNCHANGED <<opts, dirs, main_pc, main_result, cand_idx, targets, db,
                task_pc, next_start, poller_pc, procs, first_exc, joinVars,
                tmplVars, plVars, scVars, stVars, lkVars, gtVars,
                po_by_main>>

\* cli.main: the reporter joins the tasks only with a positive interval
MainAppendPoller ==
    /\ po_pc = "asked"
    /\ po_pc' = IF get_db_value(db, "status-interval") > 0
                THEN "called" ELSE "not-started"
    /\ UNCHANGED <<subprocesses, po_exc, po_elapsed, po_stats, po_wakes,
                   po_lines>>
    /\ PollerFrame

\* the head of the while loop: take the snapshot, leave the loop when no
\* target is active, go to sleep otherwise
LoopHead(sp) ==
    /\ po_stats' = get_runtime_stats(sp)
    /\ po_pc' = IF get_runtime_stats(sp).num_active_targets < 1
                THEN "returned" ELSE "sleeping"

\* status_update_poller up to its first sleep
PollerCall ==
    /\ po_pc = "called"
    /\ IF \/ "status-interval" \notin DOMAIN db
          \/ "verbose-status" \notin DOMAIN db
          \/ "cmd-print-length" \notin DOMAIN db
          \/ bad_interval(get_db_value(db, "status-interval"))
       THEN /\ po_pc' = "raised"
            /\ po_exc' = "BscanInternalError"
            /\ UNCHANGED po_stats
       ELSE /\ LoopHead(subprocesses)
            /\ UNCHANGED po_exc
    /\ UNCHANGED <<subprocesses, po_elapsed, po_wakes, po_lines>>
    /\ PollerFrame

\* the sleep ends: sp is what the pipelines have made of db['subprocesses']
\* in the meantime.  The line, if one is due, shows the snapshot taken before
\* the sleep; a verbose line lists the commands running now.
PollerWake(sp) ==
    /\ po_pc = "sleeping"
    /\ po_wakes < MaxWakes
    /\ subprocesses' = sp
    /\ po_wakes' = po_wakes + 1
    /\ IF interval_reached(po_elapsed + 1, get_db_value(db, "status-interval"))
       THEN /\ po_elapsed' = 0
            /\ po_lines' = Append(po_lines,
                   [wake |-> po_wakes + 1,
                    num_total_subprocs |->
                        reported_stats(po_stats, sp).num_total_subprocs,
                    num_active_targets |->
                        reported_stats(po_stats, sp).num_active_targets,
                    listed |-> IF get_db_value(db, "verbose-status")
                               THEN sp ELSE << >>])
       ELSE /\ po_elapsed' = po_elapsed + 1
            /\ UNCHANGED po_lines
    /\ LoopHead(sp)
    /\ UNCHANGED po_exc
    /\ PollerFrame

NextPoller ==
    \/ MainAppendPoller
    \/ PollerCall
    \/ \E sp \in SubprocDicts : PollerWake(sp)

SpecPoller == InitPoller /\ [][NextPoller]_vars

\* C22: while the reporter runs, every wake adds one poll period to the
\* accumulated time; a status line is printed exactly on the wakes that are
\* multiples of 2 * interval, the accumulated time being reset there, so
\* consecutive lines are 2 * interval wakes apart and no other wake prints.
C22_LineEveryTwoIntervalWakes ==
    po_pc \in {"sleeping", "returned"} =>
        LET interval == get_db_value(db, "status-interval")
        IN  /\ Len(po_lines) = po_wakes \div (2 * interval)
            /\ po_elapsed = po_wakes % (2 * interval)
            /\ \A k \in DOMAIN po_lines :
                   po_lines[k].wake = k * 2 * interval

C22_Witness ==
    /\ po_pc = "sleeping"
    /\ Len(po_lines) = 2
    /\ po_wakes = 4
    /\ po_lines[2].wake - po_lines[1].wake = 2

\* C23: a non-positive status interval disables reporting: cli.main does
\* not start the reporter, no status line is printed, and a call of
\* status_update_poller made all the same ends in BscanInternalError
\* without a sleep and without a line.
C23_NonPositiveIntervalDisablesReporting ==
    get_db_value(db, "status-interval") <= 0 =>
        /\ po_by_main => po_pc \in {"asked", "not-started"}
        /\ po_lines = << >>
        /\ po_wakes = 0
        /\ po_pc \notin {"sleeping", "returned"}
        /\ (~po_by_main /\ po_pc # "called") =>
               (po_pc = "raised" /\ po_exc = "BscanInternalError")

C23_Witness ==
    /\ get_db_value(db, "status-interval") = 0
    /\ "cmd-print-length" \in DOMAIN db
    /\ subprocesses # << >>
    /\ ~po_by_main
    /\ po_pc = "raised"

(***************************************************************************)
(* scans.py: run_nmap_ts and run_unicornscan_qs over proc_spawn, followed  *)
(* line by line.  A line is the sequence of its tokens, as line.split()    *)
(* gives them (for unicornscan after the brackets were replaced by         *)
(* spaces); what the subprocess writes and how it exits are inputs.        *)
(***************************************************************************)
MaxLines == 2
MaxExitCode == 1

StreamTarget == "h1"

NmapLines ==
    {<<"80/tcp", "open", "http">>,
     <<"22/tcp", "open", "ssh?">>,
     <<"Discovered", "open", "port", "80/tcp">>,
     <<"443/tcp", "closed", "https">>}

UnicornscanLines ==
    {<<"TCP", "open", "http", "80", "from", StreamTarget>>,
     <<"TCP", "open", "ssh", "22", "from", StreamTarget>>,
     <<"UDP", "open", "domain", "53", "from", StreamTarget>>}

\* int(): the decimal strings that occur in the lines
int(str) == CASE str = "22" -> 22 [] str = "53" -> 53 [] str = "80" -> 80
              [] str = "443" -> 443

\* tok.split('/')[0] of the tokens that contain '/tcp'
split_slash_0(tok) == CASE tok = "80/tcp" -> "80" [] tok = "22/tcp" -> "22"
                        [] tok = "443/tcp" -> "443"

\* '/tcp' in line
has_tcp(tokens) == \E k \in DOMAIN tokens : tokens[k] \in {"80/tcp", "22/tcp", "443/tcp"}

\* 'Discovered' in line
has_discovered(tokens) == \E k \in DOMAIN tokens : tokens[k] = "Discovered"

\* name.rstrip('?')
rstrip_qmark(name) == IF name = "ssh?" THEN "ssh" ELSE name

\* a loop body that takes a port in any state
nmap_ts_services_any_state(tokens) ==
    IF ~has_discovered(tokens) /\ has_tcp(tokens)
    THEN {[name |-> rstrip_qmark(tokens[3]),
           port |-> int(split_slash_0(tokens[1]))]}
    ELSE {}

\* the services that the loop body of run_nmap_ts adds for a line
nmap_ts_services(tokens) ==
    IF ~has_discovered(tokens) /\ has_tcp(tokens)
       /\ (\E k \in DOMAIN tokens : tokens[k] = "open")
    THEN {[name |-> rstrip_qmark(tokens[3]),
           port |-> int(split_slash_0(tokens[1]))]}
    ELSE {}

\* the services that the loop body of run_unicornscan_qs adds for a line
unicornscan_qs_services(tokens) ==
    IF Len(tokens) >= 2 /\ tokens[1] = "TCP" /\ tokens[2] = "open"
    THEN {[name |-> tokens[3], port |-> int(tokens[4])]}
    ELSE {}

line_services(scan, tokens) ==
    IF scan = "run_nmap_ts" THEN nmap_ts_services(tokens)
    ELSE unicornscan_qs_services(tokens)

scan_cmd(scan) ==
    IF scan = "run_nmap_ts" THEN NMAP_TCP_SCAN(StreamTarget)
    ELSE UNIC_QUICK_SCAN(StreamTarget)

\* proc_spawn: whether the exit code draws the warning
exit_warning_never(exit_code) == FALSE
exit_warning(exit_code) == exit_code # 0

\* the store of a configured run, as far as the scans read it
StreamStore ==
    write_db_value(write_db_value(<< >>, "output-dir", "path"),
                   "patterns", "regex")

InitStream ==
    /\ JoinIdle
    /\ TemplateIdle
    /\ PipelineIdle
    /\ ShortenIdle
    /\ PollerIdle
    /\ LockIdle
    /\ GatherIdle
    /\ opts = << >>
    /\ dirs = {}
    /\ main_pc = "idle"
    /\ main_result = "running"
    /\ cand_idx = 1
    /\ targets = << >>
    /\ task_pc = NoTasks
    /\ next_start = 0
    /\ poller_pc = "absent"
    /\ procs = {}
    /\ first_exc = "none"
    /\ db = StreamStore
    /\ subprocesses \in {<< >>, (StreamTarget :> {})}
    /\ st_scan \in {"run_nmap_ts", "run_unicornscan_qs"}
    /\ st_script \in SeqUpTo(IF st_scan = "run_nmap_ts" THEN NmapLines
                             ELSE UnicornscanLines, MaxLines)
    /\ st_pc = "called"
    /\ st_sent = 0
    /\ st_read = 0
    /\ st_os = "none"
    /\ st_code = 0
    /\ st_services = {}
    /\ st_warned = FALSE
    /\ st_ret = "none"
    /\ st_exc = "none"

StreamFrame ==
    UNCHANGED <<opts, dirs, main_pc, main_result, cand_idx, targets, db,
                task_pc, next_start, poller_pc, procs, first_exc, joinVars,
                tmplVars, plVars, scVars, poVars, lkVars, gtVars, st_scan,
                st_script>>

\* the scan up to the await of create_subprocess_shell: get_scan_file
\* reads 'output-dir', proc_spawn forks the command
StreamCall ==
    /\ st_pc = "called"
    /\ IF ~has_db_value(db, "output-dir")
       THEN /\ st_pc' = "raised"
            /\ st_exc' = "BscanInternalError"
            /\ UNCHANGED st_os
       ELSE /\ st_pc' = "forked"
            /\ st_os' = "live"
            /\ UNCHANGED st_exc
    /\ UNCHANGED <<subprocesses, st_sent, st_read, st_code, st_services,
                   st_warned, st_ret>>
    /\ StreamFrame

\* proc_spawn resumes: add_running_subproc
StreamSpawned ==
    /\ st_pc = "forked"
    /\ LET r == add_running_subproc(subprocesses, StreamTarget,
                                    scan_cmd(st_scan))
       IN  /\ subprocesses' = r.sp
           /\ st_exc' = r.exc
           /\ st_pc' = IF r.exc # "none" THEN "raised" ELSE "streaming"
    /\ UNCHANGED <<st_sent, st_read, st_os, st_code, st_services, st_warned,
                   st_ret>>
    /\ StreamFrame

\* the subprocess writes its next line
ChildWrites ==
    /\ st_os = "live"
    /\ st_sent < Len(st_script)
    /\ st_sent' = st_sent + 1
    /\ UNCHANGED <<subprocesses, st_pc, st_read, st_os, st_code, st_services,
                   st_warned, st_ret, st_exc>>
    /\ StreamFrame

\* the subprocess ends, its stdout is closed
ChildExit(exit_code) ==
    /\ st_os = "live"
    /\ st_sent = Len(st_script)
    /\ st_os' = "exited"
    /\ st_code' = exit_code
    /\ UNCHANGED <<subprocesses, st_pc, st_sent, st_read, st_services,
                   st_warned, st_ret, st_exc>>
    /\ StreamFrame

\* proc_spawn yields a line and the loop body of the scan handles it:
\* match_patterns reads 'patterns', then the line is parsed
StreamLine ==
    /\ st_pc = "streaming"
    /\ st_read < st_sent
    /\ st_read' = st_read + 1
    /\ IF ~has_db_value(db, "patterns")
       THEN /\ st_pc' = "raised"
            /\ st_exc' = "BscanInternalError"
            /\ UNCHANGED st_services
       ELSE /\ st_services' = st_services
                   \cup line_services(st_scan, st_script[st_read + 1])
            /\ UNCHANGED <<st_pc, st_exc>>
    /\ UNCHANGED <<subprocesses, st_sent, st_os, st_code, st_warned, st_ret>>
    /\ StreamFrame

\* the stream has ended: proc.wait(), the warning about a non-zero exit
\* code, remove_running_subproc, and the scan returns its services
StreamEnd ==
    /\ st_pc = "streaming"
    /\ st_read = st_sent
    /\ st_os = "exited"
    /\ st_warned' = exit_warning(st_code)
    /\ LET r == remove_running_subproc(subprocesses, StreamTarget,
                                       scan_cmd(st_scan))
       IN  /\ subprocesses' = r.sp
           /\ st_exc' = r.exc
           /\ IF r.exc # "none"
              THEN st_pc' = "raised" /\ UNCHANGED st_ret
              ELSE st_pc' = "returned" /\ st_ret' = st_services
    /\ UNCHANGED <<st_sent, st_read, st_os, st_code, st_services>>
    /\ StreamFrame

NextStream ==
    \/ StreamCall
    \/ StreamSpawned
    \/ ChildWrites
    \/ \E exit_code \in 0..MaxExitCode : ChildExit(exit_code)
    \/ StreamLine
    \/ StreamEnd

SpecStream == InitStream /\ [][NextStream]_vars

\* the services of the first n lines of a script
RECURSIVE services_of(_, _, _)
services_of(scan, script, n) ==
    IF n = 0 THEN {}
    ELSE services_of(scan, script, n - 1) \cup line_services(scan, script[n])

\* C24: a subprocess that exits with a non-zero code draws a warning and
\* nothing else: once its output has ended the scan has returned, not
\* raised, its command is out of the running set of the target, and the
\* services it returned are those of all the lines the subprocess wrote.
C24_NonZeroExitOnlyWarns ==
    (st_os = "exited" /\ st_code # 0 /\ st_pc \notin {"streaming", "forked"}) =>
        IF st_exc # "none"
        THEN \* the scan had failed before it read the stream
             st_read = 0 /\ ~has_subproc_set(subprocesses, StreamTarget)
        ELSE /\ st_pc = "returned"
             /\ st_warned
             /\ scan_cmd(st_scan) \notin subprocesses[StreamTarget]
             /\ st_ret = services_of(st_scan, st_script, Len(st_script))

C24_Witness ==
    /\ st_pc = "returned"
    /\ st_code # 0
    /\ st_scan = "run_nmap_ts"
    /\ Cardinality(st_ret) = 2

(***************************************************************************)
(* The outcome of cli.main: a run from its start, or from the gather over  *)
(* a store that runtime.init_db built.                                      *)
(***************************************************************************)
InitOutcome == Init \/ InitScan

NextOutcome == Next \/ NextScan

SpecOutcome == InitOutcome /\ [][NextOutcome]_vars

\* the exceptions that cli.main answers with exit code 1
BscanErrors ==
    {"BscanConfigError", "BscanForceSilentExit", "BscanInternalError",
     "BscanSubprocessError", "BscanError"}

\* cli.main ended before it gathered any task
EndedBeforeGather == main_pc = "done" /\ task_pc = NoTasks

\* init_config returned normally
ConfigAccepted == has_db_value(db, "verbose-status")

\* cli.main ended inside its loop over the candidates, on an exception of
\* create_dir_skeleton other than the skip
EndedInCandidateLoop ==
    /\ EndedBeforeGather
    /\ ConfigAccepted
    /\ cand_idx <= Len(opts.targets)

AtExistingDirWithoutHard ==
    /\ main_pc = "targets"
    /\ cand_idx <= Len(opts.targets)
    /\ is_valid_host(opts.targets[cand_idx])
    /\ opts.targets[cand_idx] \in dirs
    /\ ~get_db_value(db, "hard")

AtExistingDirWithHard ==
    /\ main_pc = "targets"
    /\ cand_idx <= Len(opts.targets)
    /\ is_valid_host(opts.targets[cand_idx])
    /\ opts.targets[cand_idx] \in dirs
    /\ get_db_value(db, "hard")

\* C27: with --hard a candidate whose base directory exists gets that
\* directory removed and set up afresh: create_dir_skeleton returns
\* normally, the directory exists, and cli.main admits the candidate.
C27_HardRecreatesExistingDir ==
    [][AtExistingDirWithHard =>
           /\ targets' = Append(targets, opts.targets[cand_idx])
           /\ opts.targets[cand_idx] \in dirs'
           /\ main_result' = "running"]_vars

(***************************************************************************)
(* Claims about configuration errors.                                      *)
(***************************************************************************)
\* the command line carries one of the configuration errors
ConfigRejected ==
    \/ opts.max_concurrency < 1
    \/ opts.cmd_print_width < 5
    \/ opts.qs_method \notin QsMethods
    \/ opts.ping_sweep
    \/ opts.brute_pass_list = "missing.txt"

MaxCallers == 2
MaxOps == 4

Coroutines == 1..MaxCallers

\* a command line that init_config accepts, and the same with --ping-sweep,
\* for which init_config raises half-way through its body
LockNamespaces ==
    {ns \in Namespaces :
        /\ ns.targets = << >>
        /\ ns.max_concurrency = 1
        /\ ns.cmd_print_width = 80
        /\ ~ns.hard
        /\ ~ns.quick_only
        /\ ns.qs_method = "unicornscan"
        /\ ns.brute_pass_list \in WordLists
        /\ ns.status_interval = 0}

\* the calls a coroutine makes: add_running_subproc stands for a proc_spawn,
\* whose remove_running_subproc follows when the output has ended
RuntimeCalls ==
    {[name |-> n, target |-> t, cmd |-> 0, ns |-> << >>] :
        n \in {"init_subproc_set", "remove_subproc_set"}, t \in Hosts}
    \cup {[name |-> "add_running_subproc", target |-> t, cmd |-> k, ns |-> << >>] :
             t \in Hosts, k \in 1..MaxRunning}
    \cup {[name |-> "write_db_value", target |-> "sublemon", cmd |-> 0, ns |-> << >>]}
    \cup {[name |-> "init_config", target |-> "none", cmd |-> 0, ns |-> ns] :
             ns \in LockNamespaces}

\* an init_subproc_set without its membership check
init_subproc_set_unchecked(sp, t) == [exc |-> "none", sp |-> (t :> {}) @@ sp]

\* init_subproc_set(target)
init_subproc_set(sp, t) ==
    IF has_subproc_set(sp, t)
    THEN [exc |-> "BscanInternalError", sp |-> sp]
    ELSE [exc |-> "none", sp |-> (t :> {}) @@ sp]

\* the four tracking calls by name
tracking_call(sp, op) ==
    CASE op.name = "init_subproc_set" -> init_subproc_set(sp, op.target)
      [] op.name = "remove_subproc_set" -> remove_subproc_set(sp, op.target)
      [] op.name = "add_running_subproc" ->
             add_running_subproc(sp, op.target, op.cmd)
      [] op.name = "remove_running_subproc" ->
             remove_running_subproc(sp, op.target, op.cmd)

IsTrackingCall(op) == op.name \notin {"write_db_value", "init_config"}

\* `async with lock` that does not take the lock
acquire_skipped(holder, c) == holder

\* `async with lock` on a free lock: the caller holds it
acquire(holder, c) == c

InitLock ==
    /\ JoinIdle
    /\ TemplateIdle
    /\ PipelineIdle
    /\ ShortenIdle
    /\ PollerIdle
    /\ StreamIdle
    /\ GatherIdle
    /\ opts = << >>
    /\ dirs = {}
    /\ main_pc = "idle"
    /\ main_result = "running"
    /\ cand_idx = 1
    /\ targets = << >>
    /\ task_pc = NoTasks
    /\ next_start = 0
    /\ poller_pc = "absent"
    /\ procs = {}
    /\ first_exc = "none"
    /\ db = << >>
    /\ subprocesses = << >>
    /\ lk_holder = 0
    /\ lk_running = 0
    /\ lk_pc = [c \in Coroutines |-> "ready"]
    /\ lk_op = [c \in Coroutines |-> << >>]
    /\ lk_exc = [c \in Coroutines |-> "none"]
    /\ lk_count = 0
    /\ lk_unlocked = FALSE

LockFrame ==
    UNCHANGED <<opts, dirs, main_pc, main_result, cand_idx, targets, task_pc,
                next_start, poller_pc, procs, first_exc, joinVars, tmplVars,
                plVars, scVars, poVars, stVars, gtVars>>

\* the event loop runs coroutine c, which makes the call op
LockCall(c, op) ==
    /\ lk_running = 0
    /\ lk_pc[c] = "ready"
    /\ lk_count < MaxOps
    /\ lk_running' = c
    /\ lk_pc' = [lk_pc EXCEPT ![c] = "check"]
    /\ lk_op' = [lk_op EXCEPT ![c] = op]
    /\ lk_exc' = [lk_exc EXCEPT ![c] = "none"]
    /\ lk_count' = lk_count + 1
    /\ UNCHANGED <<db, subprocesses, lk_holder, lk_unlocked>>
    /\ LockFrame

\* the statements before `async with lock`: db['subprocesses'] is looked
\* up and the precondition of the call is checked
LockCheck(c) ==
    /\ lk_running = c
    /\ lk_pc[c] = "check"
    /\ LET exc == IF ~IsTrackingCall(lk_op[c]) THEN "none"
                  ELSE IF ~has_db_value(db, "subprocesses") THEN "KeyError"
                  ELSE tracking_call(subprocesses, lk_op[c]).exc
       IN  IF exc # "none"
           THEN /\ lk_exc' = [lk_exc EXCEPT ![c] = exc]
                /\ lk_pc' = [lk_pc EXCEPT ![c] = "ready"]
                /\ lk_running' = 0
           ELSE /\ lk_pc' = [lk_pc EXCEPT ![c] = "acquire"]
                /\ UNCHANGED <<lk_exc, lk_running>>
    /\ UNCHANGED <<db, subprocesses, lk_holder, lk_op, lk_count, lk_unlocked>>
    /\ LockFrame

\* `async with lock`: a free lock is taken without suspending, a held one
\* suspends the coroutine
LockAcquire(c) ==
    /\ lk_running = c
    /\ lk_pc[c] = "acquire"
    /\ IF lk_holder = 0
       THEN /\ lk_holder' = acquire(lk_holder, c)
            /\ lk_pc' = [lk_pc EXCEPT ![c] = "body"]
            /\ UNCHANGED lk_running
       ELSE /\ lk_pc' = [lk_pc EXCEPT ![c] = "blocked"]
            /\ lk_running' = 0
            /\ UNCHANGED lk_holder
    /\ UNCHANGED <<db, subprocesses, lk_op, lk_exc, lk_count, lk_unlocked>>
    /\ LockFrame

\* the body of `async with lock`: the call changes its collection; the body
\* of init_config may raise after some of its writes
LockBody(c) ==
    /\ lk_running = c
    /\ lk_pc[c] = "body"
    /\ lk_unlocked' = (lk_unlocked \/ lk_holder # c)
    /\ lk_pc' = [lk_pc EXCEPT ![c] = "release"]
    /\ IF lk_op[c].name = "init_config"
       THEN LET r == init_config(db, lk_op[c].ns)
            IN  /\ db' = r.db
                /\ subprocesses' = IF has_db_value(r.db, "subprocesses")
                                   THEN << >> ELSE subprocesses
                /\ lk_exc' = [lk_exc EXCEPT ![c] = r.exc]
       ELSE IF lk_op[c].name = "write_db_value"
       THEN /\ db' = write_db_value(db, lk_op[c].target, c)
            /\ UNCHANGED <<subprocesses, lk_exc>>
       ELSE /\ subprocesses' = tracking_call(subprocesses, lk_op[c]).sp
            /\ UNCHANGED <<db, lk_exc>>
    /\ UNCHANGED <<lk_holder, lk_running, lk_op, lk_count>>
    /\ LockFrame

\* the end of `async with lock`, left normally or by an exception: the
\* lock is released.  proc_spawn then waits for the output of its
\* subprocess; any other call has ended.
LockRelease(c) ==
    /\ lk_running = c
    /\ lk_pc[c] = "release"
    /\ lk_holder' = IF lk_holder = c THEN 0 ELSE lk_holder
    /\ lk_running' = 0
    /\ lk_pc' = [lk_pc EXCEPT ![c] =
                    IF lk_op[c].name = "add_running_subproc"
                    THEN "streaming" ELSE "ready"]
    /\ UNCHANGED <<db, subprocesses, lk_op, lk_exc, lk_count, lk_unlocked>>
    /\ LockFrame

\* the event loop resumes a suspended coroutine: the output of the
\* subprocess has ended and proc_spawn calls remove_running_subproc, or the
\* lock it waited for is free
LockResume(c) ==
    /\ lk_running = 0
    /\ \/ /\ lk_pc[c] = "streaming"
          /\ lk_pc' = [lk_pc EXCEPT ![c] = "check"]
          /\ lk_op' = [lk_op EXCEPT ![c].name = "remove_running_subproc"]
       \/ /\ lk_pc[c] = "blocked"
          /\ lk_holder = 0
          /\ lk_pc' = [lk_pc EXCEPT ![c] = "acquire"]
          /\ UNCHANGED lk_op
    /\ lk_running' = c
    /\ UNCHANGED <<db, subprocesses, lk_holder, lk_exc, lk_count, lk_unlocked>>
    /\ LockFrame

NextLock ==
    \/ \E c \in Coroutines, op \in RuntimeCalls : LockCall(c, op)
    \/ \E c \in Coroutines : LockCheck(c)
    \/ \E c \in Coroutines : LockAcquire(c)
    \/ \E c \in Coroutines : LockBody(c)
    \/ \E c \in Coroutines : LockRelease(c)
    \/ \E c \in Coroutines : LockResume(c)

SpecLock == InitLock /\ [][NextLock]_vars

\* C29: db and db['subprocesses'] are changed only by a coroutine that
\* holds the runtime lock; the lock is held by no coroutine that is
\* suspended (waiting for subprocess output or otherwise) or that has left
\* its call, normally or with an exception such as init_config's.
C29_MutationsUnderLock ==
    /\ ~lk_unlocked
    /\ lk_running = 0 => lk_holder = 0
    /\ \A c \in Coroutines :
           lk_pc[c] \in {"ready", "check", "acquire", "streaming", "blocked"}
               => lk_holder # c
    /\ lk_holder # 0 => lk_pc[lk_holder] \in {"body", "release"}

C29_Witness ==
    \E c1, c2 \in Coroutines :
        /\ lk_pc[c1] = "streaming"
        /\ lk_pc[c2] = "release"
        /\ lk_op[c2].name = "init_config"
        /\ lk_exc[c2] = "BscanConfigError"
        /\ lk_holder = c2

\* a tracking call that does not fit the store: init_subproc_set for a
\* target with a set, any other call for a target without one, an add of a
\* command that is in the set, a remove of one that is not
Inconsistent(sp, op) ==
    CASE op.name = "init_subproc_set" -> op.target \in DOMAIN sp
      [] op.name = "remove_subproc_set" -> op.target \notin DOMAIN sp
      [] op.name = "add_running_subproc" ->
             op.target \notin DOMAIN sp \/ op.cmd \in sp[op.target]
      [] op.name = "remove_running_subproc" ->
             op.target \notin DOMAIN sp \/ op.cmd \notin sp[op.target]

\* a tracking call that does not fit the store ends with
\* BscanInternalError and changes nothing; one that fits goes on to the lock
InconsistentCallsRejected ==
    [][\A c \in Coroutines :
          (/\ lk_running = c
           /\ lk_pc[c] = "check"
           /\ IsTrackingCall(lk_op[c])
           /\ has_db_value(db, "subprocesses"))
              => IF Inconsistent(subprocesses, lk_op[c])
                 THEN /\ lk_exc'[c] = "BscanInternalError"
                      /\ lk_pc'[c] = "ready"
                      /\ subprocesses' = subprocesses
                      /\ db' = db
                 ELSE lk_pc'[c] = "acquire"]_vars

\* the subprocess of coroutine c's proc_spawn is live: it is forked before
\* add_running_subproc is called and its output has not ended
SpawnedLive(c) ==
    /\ lk_op[c] # << >>
    /\ lk_op[c].name = "add_running_subproc"
    /\ lk_pc[c] \in {"check", "acquire", "body", "release", "streaming"}

\* C34: the tracking calls reject what does not fit the store, and as a
\* result no two live subprocesses of one target have the same command.
C34_NoTwoLiveWithSameCommand ==
    \A c1, c2 \in Coroutines :
        (c1 # c2 /\ SpawnedLive(c1) /\ SpawnedLive(c2))
            => ~(/\ lk_op[c1].target = lk_op[c2].target
                 /\ lk_op[c1].cmd = lk_op[c2].cmd)

\* the number of commands in the running sets of the store sp
TotalRunning(sp) ==
    Cardinality({tc \in (DOMAIN sp) \X UNION {sp[u] : u \in DOMAIN sp} :
                     tc[2] \in sp[tc[1]]})

\* C37: a status line reports the counts of the snapshot taken at the
\* start of its wake cycle, before the sleep: the sum of the sizes of the
\* running sets and the number of active targets of the store as it was
\* then.  That number is at least one, also when the last target has
\* retired during the sleep.
C37_LineReportsSnapshotBeforeSleep ==
    [][Len(po_lines') > Len(po_lines) =>
          LET line == po_lines'[Len(po_lines')]
          IN  /\ line.num_total_subprocs = TotalRunning(subprocesses)
              /\ line.num_active_targets = Cardinality(DOMAIN subprocesses)
              /\ line.num_active_targets >= 1
              /\ \A k \in DOMAIN po_lines : po_lines'[k] = po_lines[k]]_vars

\* a line has just been printed although the last target retired during
\* the sleep; the reporter has left its loop
C37_Witness ==
    /\ po_lines # << >>
    /\ po_lines[Len(po_lines)].wake = po_wakes
    /\ po_lines[Len(po_lines)].num_active_targets >= 1
    /\ po_lines[Len(po_lines)].num_total_subprocs >= 1
    /\ subprocesses = << >>
    /\ po_pc = "returned"

\* C39: the membership check of a tracking call is still valid when the
\* call changes the store under the lock: the coroutine is not suspended
\* between the two, so no other coroutine has changed the store; an
\* existing set is never replaced by a fresh empty one and a remove under
\* the lock finds what it removes.
C39_CheckHoldsAtMutation ==
    \A c \in Coroutines :
        /\ lk_pc[c] # "blocked"
        /\ (lk_pc[c] \in {"acquire", "body"} /\ IsTrackingCall(lk_op[c]))
               => /\ lk_running = c
                  /\ has_db_value(db, "subprocesses")
                  /\ ~Inconsistent(subprocesses, lk_op[c])

\* a coroutine is about to enter a new set while another one, whose
\* subprocess is in a running set, waits for output
C39_Witness ==
    \E c1, c2 \in Coroutines :
        /\ lk_pc[c1] = "body"
        /\ lk_op[c1].name = "init_subproc_set"
        /\ lk_pc[c2] = "streaming"
        /\ lk_op[c2].cmd \in subprocesses[lk_op[c2].target]

(***************************************************************************)
(* Claims about the output path of a port-less scan.                       *)
(***************************************************************************)
\* the k-th path of the sequence <protocol>.<scanId>, <protocol>.0.<scanId>,
\* <protocol>.1.<scanId>, ...
FoutCandidate(ds, scan_name, k) ==
    get_scan_file(ds.target,
                  IF k = 0
                  THEN ds.name \o <<".">> \o scan_name
                  ELSE ds.name \o <<".">> \o str_int(k - 1) \o <<".">>
                           \o scan_name)

\* a template with <fout> and with neither <port> nor <ports>
IsPortless(template) ==
    /\ contains(template, FOUT)
    /\ ~contains(template, PORT)
    /\ ~contains(template, PORTS)

\* C31: the command built from a port-less template carries the first path
\* of the sequence <protocol>.<scanId>, <protocol>.0.<scanId>,
\* <protocol>.1.<scanId>, ... that is no existing file: that path does not
\* exist, every earlier path of the sequence does, and no other path of the
\* sequence is in the command.
C31_FirstUnusedFout ==
    (tmpl_scans # << >> /\ IsPortless(tmpl_ds.scans[1].cmd)) =>
        \E k \in 0..Cardinality(tmpl_files) :
            /\ contains(tmpl_scans[1], FoutCandidate(tmpl_ds, ScanName, k))
            /\ FoutCandidate(tmpl_ds, ScanName, k) \notin tmpl_files
            /\ \A j \in 0..(k - 1) :
                   FoutCandidate(tmpl_ds, ScanName, j) \in tmpl_files
            /\ \A j \in 0..(Cardinality(tmpl_files) + 1) :
                   j # k => ~contains(tmpl_scans[1],
                                      FoutCandidate(tmpl_ds, ScanName, j))

C31_Witness ==
    /\ tmpl_scans # << >>
    /\ IsPortless(tmpl_ds.scans[1].cmd)
    /\ Cardinality(tmpl_files) = 2
    /\ contains(tmpl_scans[1], FoutCandidate(tmpl_ds, ScanName, 2))

(***************************************************************************)
(* Claims about the result of a port scan.                                 *)
(***************************************************************************)
\* the (name, port) pair that each line of tool output stands for, if any
PairOf(tokens) ==
    CASE tokens = <<"80/tcp", "open", "http">> -> {[name |-> "http", port |-> 80]}
      [] tokens = <<"22/tcp", "open", "ssh?">> -> {[name |-> "ssh", port |-> 22]}
      [] tokens = <<"TCP", "open", "http", "80", "from", StreamTarget>> ->
             {[name |-> "http", port |-> 80]}
      [] tokens = <<"TCP", "open", "ssh", "22", "from", StreamTarget>> ->
             {[name |-> "ssh", port |-> 22]}
      [] OTHER -> {}

\* the pairs of the first n lines of the script
PairsUpTo(n) == UNION {PairOf(st_script[k]) : k \in 1..n}

\* C32: a port scan returns only when its subprocess has exited and every
\* line it wrote has been read; it returns exactly the pairs of the lines
\* that report an open TCP port, other lines adding nothing; and while it
\* reads, its services are those of the lines read so far, in the order
\* they were written.
C32_ScanReturnsParsedServices ==
    /\ st_pc = "streaming" =>
           /\ st_ret = "none"
           /\ st_read <= st_sent
           /\ st_services = PairsUpTo(st_read)
    /\ st_pc = "returned" =>
           /\ st_os = "exited"
           /\ st_read = Len(st_script)
           /\ st_ret = PairsUpTo(Len(st_script))

C32_Witness ==
    /\ st_pc = "returned"
    /\ Len(st_script) = 2
    /\ PairOf(st_script[1]) = {}
    /\ st_ret = PairOf(st_script[2])
    /\ st_ret # {}

(***************************************************************************)
(* runtime.py: gather_throttled, an asynchronous generator that its caller *)
(* iterates to the end.  The awaitables are coroutines, which start when   *)
(* asyncio.gather wraps them into tasks; how many there are, which of them *)
(* raise, and the configured batch size are inputs.                        *)
(***************************************************************************)
MaxAws == 3

\* the awaitables given: none started yet, each one ending normally or in
\* an exception
Awaitables ==
    UNION {[1..n -> [state : {"pending"}, starts : {0}, raises : BOOLEAN]] :
              n \in 0..MaxAws}

\* asyncio.gather(*aws[lo..hi]) wraps the coroutines into tasks
start_batch(aws, lo, hi) ==
    [i \in DOMAIN aws |->
        IF lo <= i /\ i <= hi
        THEN [aws[i] EXCEPT !.state = "running", !.starts = @ + 1]
        ELSE aws[i]]

\* the last index of aws[i:i+batch_size], counting from 1
batch_end(lo, batch_size, n) ==
    IF lo + batch_size - 1 > n THEN n ELSE lo + batch_size - 1

\* the test of gather_throttled for a single gather
single_batch(batch_size, n) == batch_size < 1 \/ batch_size >= n

InitGather ==
    /\ JoinIdle
    /\ TemplateIdle
    /\ PipelineIdle
    /\ ShortenIdle
    /\ PollerIdle
    /\ StreamIdle
    /\ LockIdle
    /\ opts = << >>
    /\ dirs = {}
    /\ main_pc = "idle"
    /\ main_result = "running"
    /\ cand_idx = 1
    /\ targets = << >>
    /\ subprocesses = << >>
    /\ task_pc = NoTasks
    /\ next_start = 0
    /\ poller_pc = "absent"
    /\ procs = {}
    /\ first_exc = "none"
    /\ \E batch_size \in 0..MaxAws :
           db = write_db_value(<< >>, "max-concurrency", batch_size)
    /\ gt_aws \in Awaitables
    /\ gt_pc = "called"
    /\ gt_lo = 0
    /\ gt_hi = 0

GatherFrame ==
    UNCHANGED <<mainVars, joinVars, tmplVars, plVars, scVars, poVars, stVars,
                lkVars>>

\* the first step of the generator: the batch size is read and the first
\* gather is made, of all awaitables or of the first batch
GatherCall ==
    /\ gt_pc = "called"
    /\ IF ~has_db_value(db, "max-concurrency")
       THEN /\ gt_pc' = "raised"
            /\ UNCHANGED <<gt_aws, gt_lo, gt_hi>>
       ELSE LET batch_size == get_db_value(db, "max-concurrency")
                n == Len(gt_aws)
                hi == IF single_batch(batch_size, n) THEN n
                      ELSE batch_end(1, batch_size, n)
            IN  /\ gt_pc' = "gathering"
                /\ gt_lo' = 1
                /\ gt_hi' = hi
                /\ gt_aws' = start_batch(gt_aws, 1, hi)
    /\ GatherFrame

\* a started awaitable ends.  An exception in the batch being gathered
\* leaves gather and the generator at once; the other tasks run on.
AwaitableEnds(i) ==
    /\ i \in DOMAIN gt_aws
    /\ gt_aws[i].state = "running"
    /\ gt_aws' = [gt_aws EXCEPT ![i].state =
                     IF gt_aws[i].raises THEN "failed" ELSE "done"]
    /\ gt_pc' = IF gt_aws[i].raises /\ gt_pc = "gathering"
                   /\ gt_lo <= i /\ i <= gt_hi
                THEN "raised" ELSE gt_pc
    /\ UNCHANGED <<gt_lo, gt_hi>>
    /\ GatherFrame

\* every awaitable of the batch has ended normally: gather returns and the
\* generator yields the results
GatherYield ==
    /\ gt_pc = "gathering"
    /\ \A i \in gt_lo..gt_hi : gt_aws[i].state = "done"
    /\ gt_pc' = "yielded"
    /\ UNCHANGED <<gt_aws, gt_lo, gt_hi>>
    /\ GatherFrame

\* the caller asks for the next item: the next batch is gathered, or the
\* generator is exhausted
GatherResume ==
    /\ gt_pc = "yielded"
    /\ IF gt_hi >= Len(gt_aws)
       THEN /\ gt_pc' = "finished"
            /\ UNCHANGED <<gt_aws, gt_lo, gt_hi>>
       ELSE LET hi == batch_end(gt_hi + 1,
                                get_db_value(db, "max-concurrency"),
                                Len(gt_aws))
            IN  /\ gt_pc' = "gathering"
                /\ gt_lo' = gt_hi + 1
                /\ gt_hi' = hi
                /\ gt_aws' = start_batch(gt_aws, gt_hi + 1, hi)
    /\ GatherFrame

NextGather ==
    \/ GatherCall
    \/ \E i \in 1..MaxAws : AwaitableEnds(i)
    \/ GatherYield
    \/ GatherResume

SpecGather == InitGather /\ [][NextGather]_vars

\* the awaitables that were started and have not ended
InFlight == {i \in DOMAIN gt_aws : gt_aws[i].state = "running"}

\* the number of the batch that awaitable i belongs to with batch size b
BatchOf(i, b) == (i - 1) \div b

\* C33: once gather_throttled is over, every awaitable it was given has
\* been run exactly once.
C33_EveryAwaitableRunsOnce ==
    gt_pc \in {"finished", "raised"} =>
        \A i \in DOMAIN gt_aws : gt_aws[i].starts = 1

\* What does hold of the batches: with batch size b < 1 or b >= the number
\* of awaitables all of them are started together; otherwise they are
\* started in argument order in consecutive batches of b, a batch only
\* after every awaitable of the batch before has ended normally, so that at
\* most b are in flight; no awaitable is started twice, and every one has
\* been started and has ended once the generator is exhausted.
BatchesInOrder ==
    LET b == get_db_value(db, "max-concurrency")
        n == Len(gt_aws)
    IN  /\ \A i \in DOMAIN gt_aws :
               /\ gt_aws[i].starts <= 1
               /\ gt_aws[i].starts = 0 <=> gt_aws[i].state = "pending"
        /\ (single_batch(b, n) /\ gt_pc # "called") =>
               \A i \in DOMAIN gt_aws : gt_aws[i].starts = 1
        /\ ~single_batch(b, n) =>
               /\ Cardinality(InFlight) <= b
               /\ \A i, j \in DOMAIN gt_aws :
                      (gt_aws[i].starts = 1 /\ BatchOf(j, b) < BatchOf(i, b))
                          => gt_aws[j].state = "done"
               /\ \A i, j \in DOMAIN gt_aws :
                      (gt_aws[i].starts = 1 /\ BatchOf(j, b) = BatchOf(i, b))
                          => gt_aws[j].starts = 1
        /\ gt_pc = "finished" =>
               \A i \in DOMAIN gt_aws :
                   gt_aws[i].starts = 1 /\ gt_aws[i].state = "done"

\* a run of two batches that is exhausted
TwoBatchesFinished ==
    /\ gt_pc = "finished"
    /\ Len(gt_aws) = 3
    /\ get_db_value(db, "max-concurrency") = 2
====
